---- MODULE Spec2Model ----
(***************************************************************************)
(* FreeCell: the playing field (src/freecell.py) and the curses host with  *)
(* its action interpreter and undo history (src/freecell_game.py).         *)
(*                                                                         *)
(* FreeCell objects are mutable and the host keeps references to them, so  *)
(* they live in a heap: heap maps an object id to the object's fields,     *)
(* freecell and the elements of undo_list are object ids.                  *)
(***************************************************************************)
EXTENDS Integers, Sequences, FiniteSets, TLC

(* ---- scale of the model ---- *)
MaxRank == 2         \* Card.VALUES is 1..13 in the source; ranks modelled: 1..MaxRank
TABLEAU_SLOTS == 3   \* 8 in the source
RESERVE_SLOTS == 2   \* 4 in the source
NumDeals == 2        \* outcomes of random.shuffle that are modelled
MaxN == 2            \* largest n passed to move_tableau_group and sweep_step
MaxUndo == 2         \* longest undo_list a move may leave behind
MaxRaised == 1       \* engine calls that may raise before a run of calls is given up

(* ---- Card ---- *)
FACES == <<"club", "heart", "spade", "diamond">>
FOUNDATION_SLOTS == Len(FACES)
VALUES == 1..MaxRank

Card(face, value) == [face |-> face, value |-> value]
None == [face |-> "none", value |-> 0]
Cards == {Card(FACES[f], v) : f \in 1..FOUNDATION_SLOTS, v \in VALUES}

color(c) == IF c.face \in {"club", "spade"} THEN "black" ELSE "red"
get_index(face) == CHOOSE i \in 0..(FOUNDATION_SLOTS - 1) : FACES[i + 1] = face
face_index(c) == get_index(c.face)

(* ---- stack: a list, top at the end ---- *)
empty(s) == Len(s) = 0
top(s) == s[Len(s)]
pop(s) == SubSeq(s, 1, Len(s) - 1)
push(s, item) == Append(s, item)
contains(s, item) == \E k \in 1..Len(s) : s[k] = item

(* ---- decks ---- *)
\* itertools.product(FACES, range(1, n + 1)): each face's values 1..n in turn
product_deck(n) == [p \in 1..(FOUNDATION_SLOTS * n) |->
                      Card(FACES[((p - 1) \div n) + 1], ((p - 1) % n) + 1)]

make_deck == product_deck(MaxRank)

\* random.shuffle yields some permutation of the list; k names the outcome:
\* 1 orders by value then face, 2 reverses, 3 leaves the order, 4 and up
\* rotate the by-value order.
shuffled(li, k) ==
    LET N == Len(li)
        ranks == N \div FOUNDATION_SLOTS
        byValue(p) == ((p - 1) % FOUNDATION_SLOTS) * ranks + ((p - 1) \div FOUNDATION_SLOTS) + 1
    IN  [p \in 1..N |->
            CASE k = 1 -> li[byValue(p)]
              [] k = 2 -> li[N + 1 - p]
              [] k = 3 -> li[p]
              [] OTHER -> li[byValue(((p + k - 4) % N) + 1)]]

(* ---- FreeCell: the playing field ---- *)
\* len() of a list of slots, which are numbered from 0
slots(li) == Cardinality(DOMAIN li)

\* itertools.cycle(self.tableau): after the last slot comes the first
RECURSIVE fill_tableau(_, _, _)
fill_tableau(tab, deck, slot) ==
    IF deck = <<>> THEN tab
    ELSE fill_tableau([tab EXCEPT ![slot] = push(@, Head(deck))], Tail(deck),
                      (slot + 1) % slots(tab))

\* FreeCell.__init__ with the class constants given as arguments
FreeCellOf(deck, reserve_slots, tableau_slots) ==
    [reserve    |-> [i \in 0..(reserve_slots - 1) |-> None],
     foundation |-> [i \in 0..(FOUNDATION_SLOTS - 1) |-> <<>>],
     tableau    |-> fill_tableau([i \in 0..(tableau_slots - 1) |-> <<>>], deck, 0)]

FreeCellInit(deck) == FreeCellOf(deck, RESERVE_SLOTS, TABLEAU_SLOTS)

\* FreeCell.copy: a value of the model is already independent of its source
copy(fc) == [reserve |-> fc.reserve, foundation |-> fc.foundation, tableau |-> fc.tableau]

\* as can_top, whatever the colours
can_top_any_color(a, b) == a.value = b.value - 1

can_top(a, b) == color(a) # color(b) /\ a.value = b.value - 1

can_move_to_tableau(fc, c, i) ==
    LET t == fc.tableau[i] IN empty(t) \/ can_top(c, top(t))

can_move_to_foundation(fc, c) ==
    LET f == fc.foundation[face_index(c)]
    IN  IF empty(f) THEN c.value = 1 ELSE top(f).value = c.value - 1

Min2(x, y) == IF x <= y THEN x ELSE y

get_value(fc, idx) ==
    LET f == fc.foundation[idx] IN IF empty(f) THEN 0 ELSE top(f).value

\* as should_move_to_foundation, with the margin of the card's own colour for both colours
should_move_to_foundation_one_margin(fc, c) ==
    IF ~can_move_to_foundation(fc, c) THEN FALSE
    ELSE LET min_black == Min2(get_value(fc, get_index("spade")), get_value(fc, get_index("club")))
             min_red == Min2(get_value(fc, get_index("heart")), get_value(fc, get_index("diamond")))
         IN  c.value <= Min2(min_black + 3, min_red + 3)

\* as should_move_to_foundation, with no margin over the lowest pile of the other colour
should_move_to_foundation_no_margin(fc, c) ==
    IF ~can_move_to_foundation(fc, c) THEN FALSE
    ELSE LET min_black == Min2(get_value(fc, get_index("spade")), get_value(fc, get_index("club")))
             min_red == Min2(get_value(fc, get_index("heart")), get_value(fc, get_index("diamond")))
         IN  IF color(c) = "black"
             THEN c.value <= Min2(min_black + 1, min_red)
             ELSE c.value <= Min2(min_black, min_red + 1)

\* as should_move_to_foundation, for every card its pile takes
should_move_to_foundation_whenever_possible(fc, c) == can_move_to_foundation(fc, c)

\* as should_move_to_foundation, for aces only
should_move_to_foundation_aces_only(fc, c) == can_move_to_foundation(fc, c) /\ c.value = 1

should_move_to_foundation(fc, c) ==
    IF ~can_move_to_foundation(fc, c) THEN FALSE
    ELSE LET min_black == Min2(get_value(fc, get_index("spade")), get_value(fc, get_index("club")))
             min_red == Min2(get_value(fc, get_index("heart")), get_value(fc, get_index("diamond")))
         IN  IF color(c) = "black"
             THEN c.value <= Min2(min_black + 3, min_red + 2)
             ELSE c.value <= Min2(min_black + 2, min_red + 3)

is_free(fc, c) ==
    /\ \A i \in DOMAIN fc.reserve : fc.reserve[i] # c
    /\ \A i \in DOMAIN fc.foundation : ~contains(fc.foundation[i], c)
    /\ \A i \in DOMAIN fc.tableau : ~contains(fc.tableau[i], c)

reserve_free(fc) == \E i \in DOMAIN fc.reserve : fc.reserve[i] = None

\* as reserve.index(None), from the end of the list
reserve_index_None_last(fc) ==
    CHOOSE i \in DOMAIN fc.reserve :
        fc.reserve[i] = None /\ \A j \in DOMAIN fc.reserve : j > i => fc.reserve[j] # None

reserve_index_None(fc) ==
    CHOOSE i \in DOMAIN fc.reserve :
        fc.reserve[i] = None /\ \A j \in DOMAIN fc.reserve : j < i => fc.reserve[j] # None

won(fc) == \A i \in DOMAIN fc.tableau : empty(fc.tableau[i])

\* adjacent pairs from the top of the stack: (t[k], t[k-1]) for k = Len(t), Len(t)-1, ...
RECURSIVE count_pairs(_, _)
count_pairs(t, k) ==
    IF k < 2 THEN 0
    ELSE IF can_top(t[k], t[k - 1]) THEN 1 + count_pairs(t, k - 1) ELSE 0

count_group(fc, i) ==
    LET t == fc.tableau[i]
    IN  IF empty(t) THEN 0
        ELSE IF Len(t) = 1 THEN 1
        ELSE 1 + count_pairs(t, Len(t))

RECURSIVE Pow2(_)
Pow2(e) == IF e <= 0 THEN 1 ELSE 2 * Pow2(e - 1)

\* as move_capacity, counting an empty destination among the free slots
move_capacity_counting_dest(fc, a, b) ==
    LET empty_slots == Cardinality({i \in DOMAIN fc.tableau : empty(fc.tableau[i])})
        free_reserve == Cardinality({i \in DOMAIN fc.reserve : fc.reserve[i] = None})
    IN  Min2(count_group(fc, a), (1 + free_reserve) * Pow2(empty_slots))

\* the value move_capacity returns when it does not raise MoveFromEmpty
move_capacity(fc, a, b) ==
    LET to_empty == IF empty(fc.tableau[b]) THEN 1 ELSE 0
        empty_slots == Cardinality({i \in DOMAIN fc.tableau : empty(fc.tableau[i])})
        free_reserve == Cardinality({i \in DOMAIN fc.reserve : fc.reserve[i] = None})
    IN  Min2(count_group(fc, a), (1 + free_reserve) * Pow2(empty_slots - to_empty))

(* Mutators return the field they leave behind and the exception raised   *)
(* ("" when the call returns normally).                                   *)
Outcome(fc, exc) == [fc |-> fc, exc |-> exc]

\* as move_to_foundation, the card taking the place of the pile's top card
move_to_foundation_over_top(fc, c) ==
    IF ~can_move_to_foundation(fc, c) THEN Outcome(fc, "InvalidMove")
    ELSE Outcome([fc EXCEPT !.foundation[face_index(c)] = push(pop(@), c)], "")

\* as move_to_foundation, without the check
move_to_foundation_unchecked(fc, c) ==
    Outcome([fc EXCEPT !.foundation[face_index(c)] = push(@, c)], "")

move_to_foundation(fc, c) ==
    IF ~can_move_to_foundation(fc, c) THEN Outcome(fc, "InvalidMove")
    ELSE Outcome([fc EXCEPT !.foundation[face_index(c)] = push(@, c)], "")

move_to_tableau(fc, c, i) ==
    IF ~is_free(fc, c) THEN Outcome(fc, "AssertionError")
    ELSE IF ~can_move_to_tableau(fc, c, i) THEN Outcome(fc, "InvalidMove")
    ELSE Outcome([fc EXCEPT !.tableau[i] = push(@, c)], "")

\* [self.move_to_tableau(c, b) for c in reversed(cards)]: stops at the first raise
RECURSIVE move_each_to_tableau(_, _, _)
move_each_to_tableau(fc, cs, b) ==
    IF cs = <<>> THEN Outcome(fc, "")
    ELSE LET r == move_to_tableau(fc, Head(cs), b)
         IN  IF r.exc # "" THEN r ELSE move_each_to_tableau(r.fc, Tail(cs), b)

\* as move_tableau_group, with the capacity taken to be the size of the group
move_tableau_group_any_group(fc, a, b, n) ==
    IF n = 0 THEN Outcome(fc, "InvalidMove")
    ELSE IF empty(fc.tableau[a]) THEN Outcome(fc, "MoveFromEmpty")
    ELSE IF n > count_group(fc, a) THEN Outcome(fc, "InvalidMove")
    ELSE LET ta == fc.tableau[a]
             k == IF n < 0 THEN 0 ELSE n
             cards == SubSeq(ta, Len(ta) - k + 1, Len(ta))
             popped == [fc EXCEPT !.tableau[a] = SubSeq(ta, 1, Len(ta) - k)]
         IN  move_each_to_tableau(popped, cards, b)

\* as move_tableau_group, pushing the cards in the order they were popped
move_tableau_group_popped_order(fc, a, b, n) ==
    IF n = 0 THEN Outcome(fc, "InvalidMove")
    ELSE IF empty(fc.tableau[a]) THEN Outcome(fc, "MoveFromEmpty")
    ELSE IF n > move_capacity(fc, a, b) THEN Outcome(fc, "InvalidMove")
    ELSE LET ta == fc.tableau[a]
             k == IF n < 0 THEN 0 ELSE n
             cards == [j \in 1..k |-> ta[Len(ta) + 1 - j]]
             popped == [fc EXCEPT !.tableau[a] = SubSeq(ta, 1, Len(ta) - k)]
         IN  move_each_to_tableau(popped, cards, b)

move_tableau_group(fc, a, b, n) ==
    IF n = 0 THEN Outcome(fc, "InvalidMove")
    ELSE IF empty(fc.tableau[a]) THEN Outcome(fc, "MoveFromEmpty")
    ELSE IF n > move_capacity(fc, a, b) THEN Outcome(fc, "InvalidMove")
    ELSE LET ta == fc.tableau[a]
             k == IF n < 0 THEN 0 ELSE n     \* range(n) is empty for n < 0
             \* the k popped cards, in the order reversed(cards) pushes them
             cards == SubSeq(ta, Len(ta) - k + 1, Len(ta))
             popped == [fc EXCEPT !.tableau[a] = SubSeq(ta, 1, Len(ta) - k)]
         IN  move_each_to_tableau(popped, cards, b)

move_to_reserve(fc, c) ==
    IF ~is_free(fc, c) THEN Outcome(fc, "AssertionError")
    ELSE IF ~reserve_free(fc) THEN Outcome(fc, "InvalidMove")
    ELSE Outcome([fc EXCEPT !.reserve[reserve_index_None(fc)] = c], "")

\* as move_from_reserve, leaving the card in its slot
move_from_reserve_keeps_card(fc, i) ==
    IF fc.reserve[i] = None THEN [fc |-> fc, exc |-> "MoveFromEmpty", card |-> None]
    ELSE [fc |-> fc, exc |-> "", card |-> fc.reserve[i]]

\* the returned card is card; None when the call raises
move_from_reserve(fc, i) ==
    IF fc.reserve[i] = None THEN [fc |-> fc, exc |-> "MoveFromEmpty", card |-> None]
    ELSE [fc |-> [fc EXCEPT !.reserve[i] = None], exc |-> "", card |-> fc.reserve[i]]

\* one scan of sweep: the reserve slots from i on, then the tableau slots
RECURSIVE sweep_reserve(_, _, _)
sweep_reserve(fc, i, moved) ==
    IF i >= slots(fc.reserve) THEN [fc |-> fc, moved |-> moved]
    ELSE IF fc.reserve[i] # None /\ should_move_to_foundation(fc, fc.reserve[i])
         THEN LET r == move_from_reserve(fc, i)
              IN  sweep_reserve(move_to_foundation(r.fc, r.card).fc, i + 1, TRUE)
         ELSE sweep_reserve(fc, i + 1, moved)

RECURSIVE sweep_tableau(_, _, _)
sweep_tableau(fc, i, moved) ==
    IF i >= slots(fc.tableau) THEN [fc |-> fc, moved |-> moved]
    ELSE LET t == fc.tableau[i]
         IN  IF ~empty(t) /\ should_move_to_foundation(fc, top(t))
             THEN sweep_tableau(move_to_foundation([fc EXCEPT !.tableau[i] = pop(t)], top(t)).fc,
                                i + 1, TRUE)
             ELSE sweep_tableau(fc, i + 1, moved)

sweep_scan(fc) ==
    LET r == sweep_reserve(fc, 0, FALSE) IN sweep_tableau(r.fc, 0, r.moved)

\* as sweep, without the loop: a single scan
sweep_one_scan(fc) == sweep_scan(fc).fc

RECURSIVE sweep(_)
sweep(fc) ==
    LET s == sweep_scan(fc) IN IF s.moved THEN sweep(s.fc) ELSE s.fc

\* sweep_step: the first slot numbers are the reserve's, the rest the tableau's,
\* scanned in that order; ret is the returned flag
RECURSIVE sweep_step_from(_, _, _, _)
sweep_step_from(fc, slot, left, n) ==
    IF slot >= slots(fc.reserve) + slots(fc.tableau) THEN [fc |-> fc, ret |-> (left # n)]
    ELSE IF slot < slots(fc.reserve)
    THEN IF fc.reserve[slot] # None /\ should_move_to_foundation(fc, fc.reserve[slot])
         THEN LET r == move_from_reserve(fc, slot)
                  g == move_to_foundation(r.fc, r.card).fc
              IN  IF left - 1 <= 0 THEN [fc |-> g, ret |-> TRUE]
                  ELSE sweep_step_from(g, slot + 1, left - 1, n)
         ELSE sweep_step_from(fc, slot + 1, left, n)
    ELSE LET i == slot - slots(fc.reserve)
             t == fc.tableau[i]
         IN  IF ~empty(t) /\ should_move_to_foundation(fc, top(t))
             THEN LET g == move_to_foundation([fc EXCEPT !.tableau[i] = pop(t)], top(t)).fc
                  IN  IF left - 1 <= 0 THEN [fc |-> g, ret |-> TRUE]
                      ELSE sweep_step_from(g, slot + 1, left - 1, n)
             ELSE sweep_step_from(fc, slot + 1, left, n)

sweep_step(fc, n) == sweep_step_from(fc, 0, n, n)

(* ---- state ---- *)
VARIABLES
    heap,          \* object id -> FreeCell object
    freecell,      \* FreeCellGame.freecell: id of the live field
    undo_list,     \* FreeCellGame.undo_list: ids of the stored fields
    undo_index,    \* FreeCellGame.undo_index; NoIndex for None
    action_input,  \* FreeCellGame.action_input
    try_sweep,     \* FreeCellGame.try_sweep
    stopped,       \* Game.stopped
    message,       \* Game.message; "" for None
    pc,            \* position in the control loop
    hand,          \* the card a caller of the engine holds between two calls
    raised,        \* how many engine calls have raised so far
    last           \* the most recent call and its outcome

vars == <<heap, freecell, undo_list, undo_index, action_input, try_sweep,
          stopped, message, pc, hand, raised, last>>

NoIndex == -1

Live == heap[freecell]

(* ---- the engine driven call by call ---- *)
Call(op, a, b, n, exc, ret) ==
    [op |-> op, a |-> a, b |-> b, n |-> n, exc |-> exc, ret |-> ret]

hostVars == <<freecell, undo_list, undo_index, action_input, try_sweep, stopped, message>>

EngineInit ==
    /\ \E k \in 1..NumDeals : heap = (0 :> FreeCellInit(shuffled(make_deck, k)))
    /\ freecell = 0
    /\ undo_list = <<>>
    /\ undo_index = NoIndex
    /\ action_input = <<>>
    /\ try_sweep = FALSE
    /\ stopped = FALSE
    /\ message = ""
    /\ pc = "call"
    /\ hand = None
    /\ raised = 0
    /\ last = Call("new", 0, 0, 0, "", FALSE)

SetLive(fc) == heap' = [heap EXCEPT ![freecell] = fc]

\* an engine call and its outcome: the field it leaves, what it raised
Returned(fc, c) ==
    /\ pc = "call"
    /\ pc' = "returned"
    /\ SetLive(fc)
    /\ raised' = IF c.exc = "" THEN raised ELSE raised + 1
    /\ last' = c

\* the caller has seen the outcome and goes on to its next call
EngineResume ==
    /\ pc = "returned"
    /\ raised < MaxRaised
    /\ pc' = "call"
    /\ last' = Call("none", 0, 0, 0, "", FALSE)
    /\ UNCHANGED <<heap, hand, raised, freecell, undo_list, undo_index, action_input,
                   try_sweep, stopped, message>>

\* stack.pop on a tableau slot, as the callers of the engine take a card
TableauPop(i) ==
    /\ hand = None
    /\ ~empty(Live.tableau[i])
    /\ hand' = top(Live.tableau[i])
    /\ Returned([Live EXCEPT !.tableau[i] = pop(@)], Call("pop", i, 0, 0, "", FALSE))
    /\ UNCHANGED hostVars

MoveFromReserve(i) ==
    /\ hand = None
    /\ LET r == move_from_reserve(Live, i)
       IN  /\ Returned(r.fc, Call("move_from_reserve", i, 0, 0, r.exc, FALSE))
           /\ hand' = r.card
    /\ UNCHANGED hostVars

\* a call that takes the held card; the caller keeps the card when it raises
MoveToFoundation ==
    /\ hand # None
    /\ LET r == move_to_foundation(Live, hand)
       IN  /\ Returned(r.fc, Call("move_to_foundation", 0, 0, 0, r.exc, FALSE))
           /\ hand' = IF r.exc = "" THEN None ELSE hand
    /\ UNCHANGED hostVars

MoveToTableau(i) ==
    /\ hand # None
    /\ LET r == move_to_tableau(Live, hand, i)
       IN  /\ Returned(r.fc, Call("move_to_tableau", i, 0, 0, r.exc, FALSE))
           /\ hand' = IF r.exc = "" THEN None ELSE hand
    /\ UNCHANGED hostVars

MoveToReserve ==
    /\ hand # None
    /\ LET r == move_to_reserve(Live, hand)
       IN  /\ Returned(r.fc, Call("move_to_reserve", 0, 0, 0, r.exc, FALSE))
           /\ hand' = IF r.exc = "" THEN None ELSE hand
    /\ UNCHANGED hostVars

MoveTableauGroup(a, b, n) ==
    /\ hand = None
    /\ LET r == move_tableau_group(Live, a, b, n)
       IN  Returned(r.fc, Call("move_tableau_group", a, b, n, r.exc, FALSE))
    /\ UNCHANGED <<hand, hostVars>>

Sweep ==
    /\ hand = None
    /\ Returned(sweep(Live), Call("sweep", 0, 0, 0, "", FALSE))
    /\ UNCHANGED <<hand, hostVars>>

SweepStep(n) ==
    /\ hand = None
    /\ LET r == sweep_step(Live, n)
       IN  Returned(r.fc, Call("sweep_step", 0, 0, n, "", r.ret))
    /\ UNCHANGED <<hand, hostVars>>

EngineNext ==
    \/ \E i \in 0..(TABLEAU_SLOTS - 1) : TableauPop(i)
    \/ \E i \in 0..(RESERVE_SLOTS - 1) : MoveFromReserve(i)
    \/ MoveToFoundation
    \/ \E i \in 0..(TABLEAU_SLOTS - 1) : MoveToTableau(i)
    \/ MoveToReserve
    \/ \E a, b \in 0..(TABLEAU_SLOTS - 1), n \in (-1)..MaxN : MoveTableauGroup(a, b, n)
    \/ Sweep
    \/ \E n \in 1..MaxN : SweepStep(n)
    \/ EngineResume

SpecEngine == EngineInit /\ [][EngineNext]_vars

(* ---- FreeCellGame: the host ---- *)
\* what the action keys append to action_input (key_callbacks): 'r', 't' and
\* the eight tableau keys, whose numbers also name reserve slots after 'r'
Token(kind, n) == [kind |-> kind, n |-> n]
RESERVE == Token("reserve", 0)
FOUNDATION == Token("foundation", 0)
Slot(n) == Token("slot", n)
Tokens == {RESERVE, FOUNDATION} \cup {Slot(n) : n \in 0..(TABLEAU_SLOTS - 1)}
is_int(a) == a.kind = "slot"

SWEEP_CARDS == 3

ObjIds == 0..(MaxUndo + 2)

\* what tableau_move and handle_action leave: the field, the two flags, the
\* message set ("" when none is) and the exception that escapes ("" when none does)
Handled(fc, handled, acted, msg, exc) ==
    [fc |-> fc, handled |-> handled, acted |-> acted, msg |-> msg, exc |-> exc]

\* the first i in 0..count_group(src)-1 whose i-th card from the top can top dest's top card
first_match(fc, src, dest) ==
    LET t == fc.tableau[src]
        hits == {i \in 0..(count_group(fc, src) - 1) :
                    can_top(t[Len(t) - i], top(fc.tableau[dest]))}
    IN  IF hits = {} THEN -1 ELSE CHOOSE i \in hits : \A j \in hits : i <= j

\* as tableau_move, trying only the top card of src against the top card of dest
tableau_move_top_card_only(fc, src, dest) ==
    IF empty(fc.tableau[dest])
    THEN LET r == move_tableau_group(fc, src, dest, move_capacity(fc, src, dest))
         IN  Handled(r.fc, TRUE, r.exc = "", "", r.exc)
    ELSE IF ~can_top(top(fc.tableau[src]), top(fc.tableau[dest]))
    THEN Handled(fc, TRUE, FALSE, "Cannot move cards", "")
    ELSE LET r == move_tableau_group(fc, src, dest, 1)
         IN  Handled(r.fc, TRUE, r.exc = "", "", r.exc)

\* as tableau_move, moving a single card to an empty slot
tableau_move_one_to_empty(fc, src, dest) ==
    IF empty(fc.tableau[dest])
    THEN LET r == move_tableau_group(fc, src, dest, 1)
         IN  Handled(r.fc, TRUE, r.exc = "", "", r.exc)
    ELSE LET i == first_match(fc, src, dest)
             n == i + 1
         IN  IF i < 0 THEN Handled(fc, TRUE, FALSE, "Cannot move cards", "")
             ELSE IF n > move_capacity(fc, src, dest)
             THEN Handled(fc, TRUE, FALSE, "Not enough reserve slots to move", "")
             ELSE LET r == move_tableau_group(fc, src, dest, n)
                  IN  Handled(r.fc, TRUE, r.exc = "", "", r.exc)

\* as tableau_move, without comparing n with move_capacity
tableau_move_without_capacity(fc, src, dest) ==
    IF empty(fc.tableau[dest])
    THEN LET r == move_tableau_group(fc, src, dest, move_capacity(fc, src, dest))
         IN  Handled(r.fc, TRUE, r.exc = "", "", r.exc)
    ELSE LET i == first_match(fc, src, dest)
             n == i + 1
         IN  IF i < 0 THEN Handled(fc, TRUE, FALSE, "Cannot move cards", "")
             ELSE LET r == move_tableau_group(fc, src, dest, n)
                  IN  Handled(r.fc, TRUE, r.exc = "", "", r.exc)

tableau_move(fc, src, dest) ==
    IF empty(fc.tableau[dest])
    THEN LET r == move_tableau_group(fc, src, dest, move_capacity(fc, src, dest))
         IN  Handled(r.fc, TRUE, r.exc = "", "", r.exc)
    ELSE LET i == first_match(fc, src, dest)
             n == i + 1
         IN  IF i < 0 THEN Handled(fc, TRUE, FALSE, "Cannot move cards", "")
             ELSE IF n > move_capacity(fc, src, dest)
             THEN Handled(fc, TRUE, FALSE, "Not enough reserve slots to move", "")
             ELSE LET r == move_tableau_group(fc, src, dest, n)
                  IN  Handled(r.fc, TRUE, r.exc = "", "", r.exc)

\* a composed call outer(inner()): the inner call pops the card, the outer places it
pop_then(fc, tab_n, place(_, _)) ==
    LET r == place([fc EXCEPT !.tableau[tab_n] = pop(@)], top(fc.tableau[tab_n]))
    IN  Handled(r.fc, TRUE, r.exc = "", "", r.exc)

take_then(fc, res_n, place(_, _)) ==
    LET t == move_from_reserve(fc, res_n)
        r == place(t.fc, t.card)
    IN  IF t.exc # "" THEN Handled(t.fc, TRUE, FALSE, "", t.exc)
        ELSE Handled(r.fc, TRUE, r.exc = "", "", r.exc)

\* as handle_action, looking whether the source slot is empty only when its key
\* comes: on a later token the pop from the emptied slot raises IndexError
handle_action_source_seen_once(fc, act) ==
    LET ln == Len(act)
        reject(msg) == Handled(fc, TRUE, FALSE, msg, "")
        pending == Handled(fc, FALSE, FALSE, "", "")
    IN  IF act[1] = RESERVE THEN
            IF ln > 1 THEN
                IF is_int(act[2]) THEN
                    LET res_n == act[2].n IN
                    IF res_n \notin 0..(slots(fc.reserve) - 1) THEN reject("Invalid reserve slot")
                    ELSE IF fc.reserve[res_n] = None THEN reject("Reserve slot is empty")
                    ELSE IF ln > 2 THEN
                        IF act[3] = FOUNDATION THEN
                            IF ~can_move_to_foundation(fc, fc.reserve[res_n])
                            THEN reject("Cannot move to foundation")
                            ELSE take_then(fc, res_n, move_to_foundation)
                        ELSE IF is_int(act[3]) THEN
                            IF ~can_move_to_tableau(fc, fc.reserve[res_n], act[3].n)
                            THEN reject("Cannot move to tableau")
                            ELSE LET to_slot(f, c) == move_to_tableau(f, c, act[3].n)
                                 IN  take_then(fc, res_n, to_slot)
                        ELSE reject("Invalid action")
                    ELSE pending
                ELSE reject("Invalid action")
            ELSE pending
        ELSE IF act[1] = FOUNDATION THEN reject("Cannot move cards from foundation")
        ELSE \* isinstance(act[0], int)
            LET tab_n == act[1].n IN
            IF tab_n \notin 0..(slots(fc.tableau) - 1) THEN reject("Invalid tableau slot")
            ELSE IF empty(fc.tableau[tab_n]) THEN
                IF ln > 1 THEN Handled(fc, TRUE, FALSE, "", "IndexError")
                ELSE reject("Tableau slot is empty")
            ELSE IF ln > 1 THEN
                IF act[2] = RESERVE THEN
                    IF ~reserve_free(fc) THEN reject("No free reserve slots")
                    ELSE pop_then(fc, tab_n, move_to_reserve)
                ELSE IF act[2] = FOUNDATION THEN
                    IF ~can_move_to_foundation(fc, top(fc.tableau[tab_n]))
                    THEN reject("Cannot move to foundation")
                    ELSE pop_then(fc, tab_n, move_to_foundation)
                ELSE \* isinstance(act[1], int)
                    LET dest_n == act[2].n IN
                    IF tab_n = dest_n THEN
                        IF ~reserve_free(fc) THEN reject("No free reserve slots")
                        ELSE pop_then(fc, tab_n, move_to_reserve)
                    ELSE IF dest_n \notin 0..(slots(fc.tableau) - 1) THEN reject("Invalid tableau slot")
                    ELSE tableau_move(fc, tab_n, dest_n)
            ELSE pending

handle_action(fc, act) ==
    LET ln == Len(act)
        reject(msg) == Handled(fc, TRUE, FALSE, msg, "")
        pending == Handled(fc, FALSE, FALSE, "", "")
    IN  IF act[1] = RESERVE THEN
            IF ln > 1 THEN
                IF is_int(act[2]) THEN
                    LET res_n == act[2].n IN
                    IF res_n \notin 0..(slots(fc.reserve) - 1) THEN reject("Invalid reserve slot")
                    ELSE IF fc.reserve[res_n] = None THEN reject("Reserve slot is empty")
                    ELSE IF ln > 2 THEN
                        IF act[3] = FOUNDATION THEN
                            IF ~can_move_to_foundation(fc, fc.reserve[res_n])
                            THEN reject("Cannot move to foundation")
                            ELSE take_then(fc, res_n, move_to_foundation)
                        ELSE IF is_int(act[3]) THEN
                            IF ~can_move_to_tableau(fc, fc.reserve[res_n], act[3].n)
                            THEN reject("Cannot move to tableau")
                            ELSE LET to_slot(f, c) == move_to_tableau(f, c, act[3].n)
                                 IN  take_then(fc, res_n, to_slot)
                        ELSE reject("Invalid action")
                    ELSE pending
                ELSE reject("Invalid action")
            ELSE pending
        ELSE IF act[1] = FOUNDATION THEN reject("Cannot move cards from foundation")
        ELSE \* isinstance(act[0], int)
            LET tab_n == act[1].n IN
            IF tab_n \notin 0..(slots(fc.tableau) - 1) THEN reject("Invalid tableau slot")
            ELSE IF empty(fc.tableau[tab_n]) THEN reject("Tableau slot is empty")
            ELSE IF ln > 1 THEN
                IF act[2] = RESERVE THEN
                    IF ~reserve_free(fc) THEN reject("No free reserve slots")
                    ELSE pop_then(fc, tab_n, move_to_reserve)
                ELSE IF act[2] = FOUNDATION THEN
                    IF ~can_move_to_foundation(fc, top(fc.tableau[tab_n]))
                    THEN reject("Cannot move to foundation")
                    ELSE pop_then(fc, tab_n, move_to_foundation)
                ELSE \* isinstance(act[1], int)
                    LET dest_n == act[2].n IN
                    IF tab_n = dest_n THEN
                        IF ~reserve_free(fc) THEN reject("No free reserve slots")
                        ELSE pop_then(fc, tab_n, move_to_reserve)
                    ELSE IF dest_n \notin 0..(slots(fc.tableau) - 1) THEN reject("Invalid tableau slot")
                    ELSE tableau_move(fc, tab_n, dest_n)
            ELSE pending

(* The history: undo, redo and push_undo work on the game's references to *)
(* FreeCell objects; g holds the fields of the game they read and write.   *)
Game(h, f, ul, ui, ts) ==
    [heap |-> h, freecell |-> f, undo_list |-> ul, undo_index |-> ui, try_sweep |-> ts]

G == Game(heap, freecell, undo_list, undo_index, try_sweep)

live(g) == g.heap[g.freecell]

\* the objects still referred to; the others are garbage
collect(g) ==
    LET used == {g.freecell} \cup {g.undo_list[k] : k \in 1..Len(g.undo_list)}
    IN  [g EXCEPT !.heap = [id \in used |-> g.heap[id]]]

\* the id of the object FreeCell.copy creates
new_id(h) == CHOOSE id \in ObjIds \ DOMAIN h : \A other \in ObjIds \ DOMAIN h : id <= other

\* as undo, without appending the live field when the cursor is absent
undo_without_capture(g) ==
    IF g.undo_list = <<>> THEN g
    ELSE IF g.undo_index = NoIndex
    THEN [g EXCEPT !.undo_index = Len(g.undo_list) - 1,
                   !.freecell = g.undo_list[Len(g.undo_list)],
                   !.try_sweep = TRUE]
    ELSE IF g.undo_index # 0
    THEN [g EXCEPT !.undo_index = g.undo_index - 1,
                   !.freecell = g.undo_list[g.undo_index],
                   !.try_sweep = TRUE]
    ELSE [g EXCEPT !.try_sweep = TRUE]

\* as undo, staying at the cursor when the cursor is set
undo_stays_at_cursor(g) ==
    IF g.undo_list = <<>> THEN g
    ELSE IF g.undo_index = NoIndex
    THEN [g EXCEPT !.undo_index = Len(g.undo_list) - 1,
                   !.undo_list = Append(g.undo_list, g.freecell),
                   !.freecell = g.undo_list[Len(g.undo_list)],
                   !.try_sweep = TRUE]
    ELSE [g EXCEPT !.try_sweep = TRUE]

undo(g) ==
    IF g.undo_list = <<>> THEN g
    ELSE IF g.undo_index = NoIndex
    THEN [g EXCEPT !.undo_index = Len(g.undo_list) - 1,
                   !.undo_list = Append(g.undo_list, g.freecell),
                   !.freecell = g.undo_list[Len(g.undo_list)],
                   !.try_sweep = TRUE]
    ELSE IF g.undo_index # 0
    THEN [g EXCEPT !.undo_index = g.undo_index - 1,
                   !.freecell = g.undo_list[g.undo_index],
                   !.try_sweep = TRUE]
    ELSE [g EXCEPT !.try_sweep = TRUE]

\* as redo, leaving the live capture in undo_list when the cursor reaches it
redo_without_pop(g) ==
    IF g.undo_index = NoIndex THEN g
    ELSE IF g.undo_index + 1 = Len(g.undo_list)
    THEN [g EXCEPT !.freecell = g.undo_list[Len(g.undo_list)],
                   !.undo_index = NoIndex,
                   !.try_sweep = TRUE]
    ELSE [g EXCEPT !.undo_index = g.undo_index + 1,
                   !.freecell = g.undo_list[g.undo_index + 2],
                   !.try_sweep = TRUE]

redo(g) ==
    IF g.undo_index = NoIndex THEN g
    ELSE IF g.undo_index + 1 = Len(g.undo_list)
    THEN [g EXCEPT !.freecell = g.undo_list[Len(g.undo_list)],
                   !.undo_list = SubSeq(g.undo_list, 1, Len(g.undo_list) - 1),
                   !.undo_index = NoIndex,
                   !.try_sweep = TRUE]
    ELSE [g EXCEPT !.undo_index = g.undo_index + 1,
                   !.freecell = g.undo_list[g.undo_index + 2],
                   !.try_sweep = TRUE]

\* as push_undo, leaving the cursor set
push_undo_keep_cursor(g, state) ==
    IF g.undo_index # NoIndex
    THEN [g EXCEPT !.undo_list = Append(SubSeq(g.undo_list, 1, g.undo_index), state)]
    ELSE [g EXCEPT !.undo_list = Append(g.undo_list, state)]

\* as push_undo, deleting only what follows the cursor (del undo_list[undo_index + 1:])
push_undo_after_cursor(g, state) ==
    IF g.undo_index # NoIndex
    THEN [g EXCEPT !.undo_list = Append(SubSeq(g.undo_list, 1, g.undo_index + 1), state),
                   !.undo_index = NoIndex]
    ELSE [g EXCEPT !.undo_list = Append(g.undo_list, state)]

\* as push_undo, appending the field in play instead of the copy handed over
push_undo_live(g, state) ==
    IF g.undo_index # NoIndex
    THEN [g EXCEPT !.undo_list = Append(SubSeq(g.undo_list, 1, g.undo_index), g.freecell),
                   !.undo_index = NoIndex]
    ELSE [g EXCEPT !.undo_list = Append(g.undo_list, g.freecell)]

\* state is the id of the copy to push
push_undo(g, state) ==
    IF g.undo_index # NoIndex
    THEN [g EXCEPT !.undo_list = Append(SubSeq(g.undo_list, 1, g.undo_index), state),
                   !.undo_index = NoIndex]
    ELSE [g EXCEPT !.undo_list = Append(g.undo_list, state)]

\* as clear_action, leaving the first token in place
clear_action_keeps_source(input) == IF input = <<>> THEN <<>> ELSE <<input[1]>>

\* del self.action_input[:]
clear_action(input) == <<>>

\* the most recent input event: the key's handler, what handle_action returned,
\* undo_index before it, the undo() calls in a row before it (counted to 2;
\* redo() and a completed move end the row) and after it, and the action_input
\* that handle_action read or clear_action deleted
Event(op, handled, acted, idx, prior, undos, input) ==
    [op |-> op, handled |-> handled, acted |-> acted, idx |-> idx,
     prior |-> prior, undos |-> undos, input |-> input]

Init ==
    /\ \E k \in 1..NumDeals : heap = (0 :> FreeCellInit(shuffled(make_deck, k)))
    /\ freecell = 0
    /\ undo_list = <<>>
    /\ undo_index = NoIndex
    /\ action_input = <<>>
    /\ try_sweep = TRUE
    /\ stopped = FALSE
    /\ message = ""
    /\ pc = "tick"
    /\ hand = None
    /\ raised = 0
    /\ last = Event("start_game", FALSE, FALSE, NoIndex, 0, 0, <<>>)

SetGame(g) ==
    /\ heap' = g.heap
    /\ freecell' = g.freecell
    /\ undo_list' = g.undo_list
    /\ undo_index' = g.undo_index
    /\ try_sweep' = g.try_sweep

\* One turn of the loop up to the input: after_tick of the turn before, then
\* before_tick with the game's sweep_step. A message's time is taken to be up by
\* the after_tick that follows the input which set it.
Tick ==
    /\ pc = "tick"
    /\ pc' = "input"
    /\ message' = ""
    /\ IF try_sweep
       THEN LET r == sweep_step(Live, SWEEP_CARDS)
            IN  /\ heap' = [heap EXCEPT ![freecell] = r.fc]
                /\ IF r.ret
                   THEN IF won(r.fc)
                        THEN /\ stopped' = TRUE         \* game_won
                             /\ try_sweep' = FALSE
                             /\ action_input' = clear_action(action_input)
                        ELSE UNCHANGED <<stopped, try_sweep, action_input>>
                   ELSE /\ try_sweep' = FALSE
                        /\ UNCHANGED <<stopped, action_input>>
       ELSE UNCHANGED <<heap, stopped, try_sweep, action_input>>
    /\ UNCHANGED <<freecell, undo_list, undo_index, hand, raised, last>>

\* getch returns no key, or a key that nothing is bound to here
NoInput ==
    /\ pc = "input"
    /\ pc' = "tick"
    /\ last' = Event("no_input", FALSE, FALSE, undo_index, last.undos, last.undos, <<>>)
    /\ UNCHANGED <<heap, freecell, undo_list, undo_index, action_input, try_sweep,
                   stopped, message, hand, raised>>

\* a move may complete only while the history has room for its snapshot
Room == IF undo_index = NoIndex THEN Len(undo_list) < MaxUndo ELSE undo_index < MaxUndo

\* FreeCellGame.action(a, text)
Action(a) ==
    /\ pc = "input"
    /\ ~stopped
    /\ LET act == Append(action_input, a)
           state == new_id(heap)
           copied == Game(heap @@ (state :> copy(Live)), freecell, undo_list, undo_index, try_sweep)
           r == handle_action(Live, act)
           moved == [copied EXCEPT !.heap[freecell] = r.fc]
           g == IF r.acted THEN push_undo([moved EXCEPT !.try_sweep = TRUE], state) ELSE moved
       IN  /\ r.acted => Room
           /\ SetGame(collect(g))
           /\ action_input' = IF r.handled THEN clear_action(act) ELSE act
           /\ message' = IF r.msg # "" THEN r.msg ELSE message
           /\ pc' = IF r.exc = "" THEN "tick" ELSE "raised"
           /\ last' = Event("action", r.handled, r.acted, undo_index, last.undos,
                            IF r.acted THEN 0 ELSE last.undos, act)
    /\ UNCHANGED <<stopped, hand, raised>>

\* space or escape: clear_action, from key_callbacks or from action_callback
ClearAction ==
    /\ pc = "input"
    /\ ~stopped
    /\ pc' = "tick"
    /\ action_input' = clear_action(action_input)
    /\ last' = Event("clear_action", FALSE, FALSE, undo_index, last.undos, last.undos, action_input)
    /\ UNCHANGED <<heap, freecell, undo_list, undo_index, try_sweep, stopped, message,
                   hand, raised>>

\* 'u' and ctrl-r reach undo and redo only while no action has grabbed the input
Undo ==
    /\ pc = "input"
    /\ ~stopped
    /\ action_input = <<>>
    /\ pc' = "tick"
    /\ SetGame(collect(undo(G)))
    /\ last' = Event("undo", FALSE, FALSE, undo_index, last.undos,
                     IF last.undos < 2 THEN last.undos + 1 ELSE 2, <<>>)
    /\ UNCHANGED <<action_input, stopped, message, hand, raised>>

Redo ==
    /\ pc = "input"
    /\ ~stopped
    /\ action_input = <<>>
    /\ pc' = "tick"
    /\ SetGame(collect(redo(G)))
    /\ last' = Event("redo", FALSE, FALSE, undo_index, last.undos, 0, <<>>)
    /\ UNCHANGED <<action_input, stopped, message, hand, raised>>

Next ==
    \/ Tick
    \/ NoInput
    \/ \E a \in Tokens : Action(a)
    \/ ClearAction
    \/ Undo
    \/ Redo

Spec == Init /\ [][Next]_vars

\* go() runs until quit: every turn of the loop does its tick and then takes
\* what getch returns within the timeout, a key or none
SpecFair == Spec /\ WF_vars(Next)

(* ---- what the engine is claimed to do ---- *)
Occurrences(fc, c) ==
    Cardinality({i \in DOMAIN fc.reserve : fc.reserve[i] = c})
    + Cardinality({<<i, k>> \in (DOMAIN fc.foundation) \X (1..(FOUNDATION_SLOTS * MaxRank)) :
                     k <= Len(fc.foundation[i]) /\ fc.foundation[i][k] = c})
    + Cardinality({<<i, k>> \in (DOMAIN fc.tableau) \X (1..(FOUNDATION_SLOTS * MaxRank)) :
                     k <= Len(fc.tableau[i]) /\ fc.tableau[i][k] = c})

FullDeck(fc) == \A c \in Cards : Occurrences(fc, c) = 1

Mutators == {"move_to_foundation", "move_to_tableau", "move_tableau_group",
             "move_to_reserve", "move_from_reserve"}

\* the step is a call of move_tableau_group(last'.a, last'.b, last'.n)
GroupCall == pc = "call" /\ pc' = "returned" /\ last'.op = "move_tableau_group"

\* the n cards on top of stack t, bottom to top
TopCards(t, n) == SubSeq(t, Len(t) - n + 1, Len(t))

\* the step took the top n cards of slot a to slot b, in order, and nothing else
GroupRelocated(a, b, n) ==
    /\ last'.exc = ""
    /\ Live'.tableau[b] = Live.tableau[b] \o TopCards(Live.tableau[a], n)
    /\ Live'.tableau[a] = SubSeq(Live.tableau[a], 1, Len(Live.tableau[a]) - n)
    /\ \A i \in DOMAIN Live.tableau : i \notin {a, b} => Live'.tableau[i] = Live.tableau[i]
    /\ Live'.foundation = Live.foundation
    /\ Live'.reserve = Live.reserve

WithinCapacity(a, b, n) ==
    /\ a # b
    /\ ~empty(Live.tableau[a])
    /\ 1 <= n
    /\ n <= move_capacity(Live, a, b)

\* C1: whenever an engine call has returned and the caller holds no card, the
\* reserve, the foundation and the tableau hold every card of the deck exactly once.
C1_FullDeckAfterEveryCall == (pc = "returned" /\ hand = None) => FullDeck(Live)

\* C2: a mutator that raises InvalidMove or MoveFromEmpty leaves the reserve,
\* the foundation and the tableau as they were before the call.
C2_FailureChangesNothing ==
    [][(pc = "call" /\ pc' = "returned" /\ last'.op \in Mutators
        /\ last'.exc \in {"InvalidMove", "MoveFromEmpty"}) => Live' = Live]_vars

\* C3 as claimed: move_tableau_group(a, b, n) with a # b and 1 <= n <= move_capacity(a, b)
\* returns normally, having taken the top n cards of a to b in order and nothing else.
C3_GroupWithinCapacityMoves ==
    [][(GroupCall /\ WithinCapacity(last'.a, last'.b, last'.n))
        => GroupRelocated(last'.a, last'.b, last'.n)]_vars

\* C3 amended: the same, when moreover slot b is empty or the bottom card of the
\* group can top the top card of b.
C3_PlaceableGroupMoves ==
    [][(/\ GroupCall
        /\ WithinCapacity(last'.a, last'.b, last'.n)
        /\ can_move_to_tableau(Live, TopCards(Live.tableau[last'.a], last'.n)[1], last'.b))
        => GroupRelocated(last'.a, last'.b, last'.n)]_vars

\* a group of at least two cards has just been moved to another slot
C3_GroupMoved ==
    /\ pc = "returned"
    /\ last.op = "move_tableau_group"
    /\ last.exc = ""
    /\ last.a # last.b
    /\ last.n >= 2

\* C4: move_tableau_group(a, b, n) with a non-empty and n > move_capacity(a, b)
\* raises InvalidMove and changes nothing.
C4_OverCapacityRejected ==
    [][(GroupCall /\ ~empty(Live.tableau[last'.a])
        /\ last'.n > move_capacity(Live, last'.a, last'.b))
        => (last'.exc = "InvalidMove" /\ Live' = Live)]_vars

\* a call for more cards than the capacity, though slot a holds that many, has been rejected
C4_OverCapacityCall ==
    /\ pc = "returned"
    /\ last.op = "move_tableau_group"
    /\ last.exc = "InvalidMove"
    /\ last.n <= Len(Live.tableau[last.a])
    /\ last.n <= count_group(Live, last.a)
    /\ last.n > move_capacity(Live, last.a, last.b)

\* C5: move_tableau_group(a, b, n) with n < 1 raises InvalidMove.
C5_NonPositiveCountRejected ==
    [][(GroupCall /\ last'.n < 1) => last'.exc = "InvalidMove"]_vars

\* sweep_step(n) called until it returns False
RECURSIVE sweep_step_until_false(_, _)
sweep_step_until_false(fc, n) ==
    LET r == sweep_step(fc, n) IN IF r.ret THEN sweep_step_until_false(r.fc, n) ELSE r.fc

\* C6: from every field a caller may sweep, sweep_step(n) repeated until it returns
\* False leaves the field that one call of sweep leaves, for every n >= 1.
C6_SweepStepsReachSweep ==
    pc = "call" => \A n \in 1..MaxN : sweep_step_until_false(Live, n) = sweep(Live)

\* a field between two calls, some cards already swept by sweep_step, where what
\* is left to sweep takes sweep two more scans
C6_SweepInProgress ==
    /\ pc = "call"
    /\ hand = None
    /\ \E i \in DOMAIN Live.foundation : ~empty(Live.foundation[i])
    /\ sweep_scan(Live).moved
    /\ sweep_scan(sweep_scan(Live).fc).moved

(* ---- what the history is claimed to do ---- *)
\* C7: a field stored in undo_list keeps its contents for as long as it stays
\* stored: whatever object is at a position of undo_list before and after a step
\* holds the same reserve, foundation and tableau after the step as before.
C7_StoredFieldsKeepContents ==
    [][\A k \in 1..Len(undo_list) :
          (k <= Len(undo_list') /\ undo_list'[k] = undo_list[k])
              => heap'[undo_list[k]] = heap[undo_list[k]]]_vars

\* C8: with the cursor absent (a history made by moves), undo() followed at once
\* by redo() leaves a live field equal to the live field before the undo().
C8_UndoRedoRestoresLive ==
    undo_index = NoIndex => live(redo(undo(G))) = Live

\* a move has just been made and undo() would put another field in play
C8_MoveToUndo ==
    /\ pc = "input"
    /\ last.op = "action"
    /\ last.acted
    /\ action_input = <<>>
    /\ undo_index = NoIndex
    /\ live(undo(G)) # Live

\* the step completes a move (handle_action returned acted)
MoveStep == pc = "input" /\ pc' = "tick" /\ last'.op = "action" /\ last'.acted

\* C9: right after a move that follows two undo() calls the cursor is absent and
\* redo() changes neither the live field nor the history.
C9_RedoAfterNewMoveDoesNothing ==
    (pc = "tick" /\ last.op = "action" /\ last.acted /\ last.prior = 2)
        => (undo_index = NoIndex /\ redo(G) = G)

\* a move has just been made after two undo() calls, with the cursor set
C9_MovedAfterTwoUndos ==
    /\ pc = "tick"
    /\ last.op = "action"
    /\ last.acted
    /\ last.prior = 2
    /\ last.idx # NoIndex

\* C10 as claimed: the push of a move made with the cursor at c keeps the c + 1
\* fields up to and at the cursor and appends the new one (c + 2 in all), clearing
\* the cursor; with the cursor absent it only appends.
C10_PushKeepsThroughCursor ==
    [][MoveStep =>
        /\ undo_index' = NoIndex
        /\ IF undo_index # NoIndex
           THEN /\ Len(undo_list') = undo_index + 2
                /\ SubSeq(undo_list', 1, undo_index + 1) = SubSeq(undo_list, 1, undo_index + 1)
           ELSE /\ Len(undo_list') = Len(undo_list) + 1
                /\ SubSeq(undo_list', 1, Len(undo_list)) = undo_list]_vars

\* C10 amended: the push keeps the c fields before the cursor, untouched, drops
\* the one at the cursor and all after it, and appends the new one (c + 1 in
\* all), clearing the cursor; with the cursor absent it only appends. The field
\* appended is a new object holding what was in play before the move.
C10_PushDropsFromCursor ==
    [][MoveStep =>
        LET kept == IF undo_index # NoIndex THEN undo_index ELSE Len(undo_list)
        IN  /\ undo_index' = NoIndex
            /\ Len(undo_list') = kept + 1
            /\ SubSeq(undo_list', 1, kept) = SubSeq(undo_list, 1, kept)
            /\ \A k \in 1..kept : heap'[undo_list[k]] = heap[undo_list[k]]
            /\ undo_list'[kept + 1] \notin DOMAIN heap
            /\ heap'[undo_list'[kept + 1]] = Live]_vars

\* a move has just been made with the cursor set past the first field
C10_PushedAtCursor ==
    /\ pc = "tick"
    /\ last.op = "action"
    /\ last.acted
    /\ last.idx >= 1

\* the step is a call of undo() / of redo()
UndoStep == pc = "input" /\ pc' = "tick" /\ last'.op = "undo"
RedoStep == pc = "input" /\ pc' = "tick" /\ last'.op = "redo"

\* the step leaves the live field, the history and the cursor as they were
HistoryUnchanged ==
    /\ Live' = Live
    /\ undo_list' = undo_list
    /\ \A k \in 1..Len(undo_list) : heap'[undo_list[k]] = heap[undo_list[k]]
    /\ undo_index' = undo_index

\* C11: undo() with the cursor absent and a non-empty history sets the cursor to
\* the last index, appends the live field to the history and puts the field at
\* the cursor in play; with the cursor set past 0 it steps the cursor back and
\* puts that field in play; with the cursor at 0 or an empty history it changes
\* neither the live field, the history nor the cursor.
C11_UndoByCases ==
    [][UndoStep =>
        IF undo_list = <<>> \/ undo_index = 0 THEN HistoryUnchanged
        ELSE IF undo_index = NoIndex
        THEN /\ undo_index' = Len(undo_list) - 1
             /\ Len(undo_list') = Len(undo_list) + 1
             /\ SubSeq(undo_list', 1, Len(undo_list)) = undo_list
             /\ heap'[undo_list'[Len(undo_list')]] = Live
             /\ Live' = heap[undo_list[Len(undo_list)]]
             /\ freecell' = undo_list'[undo_index' + 1]
        ELSE /\ undo_index' = undo_index - 1
             /\ undo_list' = undo_list
             /\ Live' = heap[undo_list[undo_index]]
             /\ freecell' = undo_list'[undo_index' + 1]]_vars

\* undo() has just stepped a set cursor back
C11_UndoneFromCursor ==
    /\ pc = "tick"
    /\ last.op = "undo"
    /\ last.idx >= 1
    /\ undo_index = last.idx - 1

\* C12: redo() with the cursor absent changes nothing; otherwise it steps the
\* cursor forward and, when the cursor then equals the length of the history,
\* pops the last field, puts it in play and clears the cursor, else puts the
\* field at the new cursor in play and leaves the history list as it was.
C12_RedoByCases ==
    [][RedoStep =>
        IF undo_index = NoIndex THEN HistoryUnchanged
        ELSE IF undo_index + 1 = Len(undo_list)
        THEN /\ undo_index' = NoIndex
             /\ undo_list' = SubSeq(undo_list, 1, Len(undo_list) - 1)
             /\ freecell' = undo_list[Len(undo_list)]
             /\ Live' = heap[undo_list[Len(undo_list)]]
        ELSE /\ undo_index' = undo_index + 1
             /\ undo_list' = undo_list
             /\ freecell' = undo_list[undo_index' + 1]
             /\ Live' = heap[undo_list[undo_index' + 1]]]_vars

\* redo() has just stepped the cursor forward to a field that is not the last
C12_RedoneWithinHistory ==
    /\ pc = "tick"
    /\ last.op = "redo"
    /\ last.idx # NoIndex
    /\ undo_index = last.idx + 1

(* ---- what the interpreter and the loop are claimed to do ---- *)
\* the objects undo_list' holds that undo_list did not
Pushed == {undo_list'[k] : k \in 1..Len(undo_list')} \ {undo_list[k] : k \in 1..Len(undo_list)}

\* C13: a completed move pushes exactly one field, a new object holding what was
\* in play just before the move (when the completing token came), as the last of
\* undo_list, and sets try_sweep; a token that leaves the input pending, a
\* rejected input and a cancel push nothing and leave the history as it was.
C13_MovePushesPriorField ==
    [][/\ MoveStep =>
            /\ Cardinality(Pushed) = 1
            /\ Pushed = {undo_list'[Len(undo_list')]}
            /\ Pushed \cap DOMAIN heap = {}
            /\ heap'[undo_list'[Len(undo_list')]] = Live
            /\ Live' # Live
            /\ try_sweep'
       /\ (pc = "input" /\ last'.op \in {"action", "clear_action"} /\ ~last'.acted) =>
            /\ Pushed = {}
            /\ undo_list' = undo_list
            /\ undo_index' = undo_index
            /\ Live' = Live]_vars

\* a move has just been completed on a field that sweeps had changed since the
\* deal: the field pushed holds cards on the foundation and is not the field in play
C13_MovedAfterSweeps ==
    /\ pc = "tick"
    /\ last.op = "action"
    /\ last.acted
    /\ undo_list # <<>>
    /\ \E i \in DOMAIN Live.foundation : ~empty(heap[undo_list[Len(undo_list)]].foundation[i])
    /\ heap[undo_list[Len(undo_list)]] # Live

\* no engine call made by handle_action raises
NoEscape == pc # "raised"

\* C14: in every run of the loop, once all tableau slots of the field in play are
\* empty the game is stopped (game_won) at some later point, whether a sweep or
\* the player's own move took the last card off the tableau.
C14_EmptyTableauLeadsToStopped == [](won(Live) => <>stopped)

\* every card is on the foundation pile of its face and no reserve slot holds a card
AllOnPiles(fc) ==
    /\ \A i \in DOMAIN fc.reserve : fc.reserve[i] = None
    /\ \A c \in Cards : contains(fc.foundation[face_index(c)], c)

\* C15: whenever won() is true of the field in play, and whenever the game is
\* stopped as won, every card is on the foundation and the reserve is empty.
C15_WonMeansAllOnPiles == (won(Live) \/ stopped) => AllOnPiles(Live)

(* ---- the engine at the size of the source: 13 values, 4 reserve and 8 tableau slots ---- *)
FullRanks == 13
FullReserve == 4
FullTableau == 8

full_deck == product_deck(FullRanks)

\* the deck by value from the highest down, the four cards of a value together
descending(li) == [p \in 1..Len(li) |-> shuffled(li, 1)[Len(li) + 1 - p]]

\* the decks dealt: as make_deck yields it, by value upwards, reversed, by value downwards
SweepDecks == {full_deck, shuffled(full_deck, 1), shuffled(full_deck, 2), descending(full_deck)}

SweepInit ==
    /\ \E deck \in SweepDecks : heap = (0 :> FreeCellOf(deck, FullReserve, FullTableau))
    /\ freecell = 0
    /\ undo_list = <<>>
    /\ undo_index = NoIndex
    /\ action_input = <<>>
    /\ try_sweep = FALSE
    /\ stopped = FALSE
    /\ message = ""
    /\ pc = "call"
    /\ hand = None
    /\ raised = 0
    /\ last = Call("new", 0, 0, 0, "", FALSE)

SweepNext ==
    \/ Sweep
    \/ \E n \in 1..MaxN : SweepStep(n)
    \/ EngineResume

SpecSweep == SweepInit /\ [][SweepNext]_vars

\* the step is a call of sweep()
SweepCall == pc = "call" /\ pc' = "returned" /\ last'.op = "sweep"

\* every foundation pile ends with the highest value
KingsOnTop(fc) ==
    \A i \in DOMAIN fc.foundation :
        ~empty(fc.foundation[i]) /\ top(fc.foundation[i]).value = FullRanks

\* C16 as claimed: sweep() called on the field dealt from the deck as make_deck
\* yields it (and on the field any earlier sweep left of it) leaves won() true
\* and every foundation pile ending with value 13.
C16_UnshuffledDeckSweepsOut ==
    [][(SweepCall /\ Live = FreeCellOf(full_deck, FullReserve, FullTableau))
        => (won(Live') /\ KingsOnTop(Live'))]_vars

\* C16 amended: sweep() called on the field dealt from the deck ordered by value
\* from 13 down to 1 leaves won() true and every foundation pile ending with
\* value 13; called on the field dealt from the deck as make_deck yields it, it
\* moves no card.
C16_DescendingDeckSweepsOut ==
    [][/\ (SweepCall /\ Live = FreeCellOf(descending(full_deck), FullReserve, FullTableau))
            => (won(Live') /\ KingsOnTop(Live'))
       /\ (SweepCall /\ Live = FreeCellOf(full_deck, FullReserve, FullTableau))
            => (Live' = Live /\ ~won(Live'))]_vars

\* sweep() has just swept a whole deck of 52 onto the foundation
C16_SweptOut ==
    /\ pc = "returned"
    /\ last.op = "sweep"
    /\ won(Live)
    /\ KingsOnTop(Live)
    /\ \A i \in DOMAIN Live.foundation : Len(Live.foundation[i]) = FullRanks

(* ---- more of what the engine is claimed to do ---- *)
\* C17: every foundation pile of every field holds, bottom to top, the cards of
\* its own face with the values 1, 2, ..., k and nothing else.
C17_PilesAscendFromOne ==
    \A id \in DOMAIN heap : \A i \in DOMAIN heap[id].foundation :
        \A k \in 1..Len(heap[id].foundation[i]) :
            heap[id].foundation[i][k] = Card(FACES[i + 1], k)

\* move_to_foundation has just put a card on a card
C17_PileOfTwo ==
    /\ pc = "returned"
    /\ last.op = "move_to_foundation"
    /\ last.exc = ""
    /\ \E i \in DOMAIN Live.foundation : Len(Live.foundation[i]) >= 2

\* C20: move_from_reserve(i) on an empty slot raises MoveFromEmpty and leaves the
\* field as it was; on a slot holding a card it returns that card, empties slot
\* i and leaves every other reserve slot, the foundation and the tableau alone.
C20_MoveFromReserveByCases ==
    [][(pc = "call" /\ pc' = "returned" /\ last'.op = "move_from_reserve") =>
        LET i == last'.a
        IN  IF Live.reserve[i] = None
            THEN /\ last'.exc = "MoveFromEmpty"
                 /\ Live' = Live
                 /\ hand' = None
            ELSE /\ last'.exc = ""
                 /\ hand' = Live.reserve[i]
                 /\ Live'.reserve[i] = None
                 /\ \A j \in DOMAIN Live.reserve : j # i => Live'.reserve[j] = Live.reserve[j]
                 /\ Live'.foundation = Live.foundation
                 /\ Live'.tableau = Live.tableau]_vars

\* move_from_reserve has just taken a card from one slot while another holds a card
C20_TakenFromReserve ==
    /\ pc = "returned"
    /\ last.op = "move_from_reserve"
    /\ last.exc = ""
    /\ hand # None
    /\ Live.reserve[last.a] = None
    /\ \E j \in DOMAIN Live.reserve : Live.reserve[j] # None

(* ---- the engine's queries, asked of fields of the size of the source ---- *)
PileMax == 4      \* highest pile a field asked about has
MaxRun == 7       \* longest run a field asked about has on a tableau slot
MaxEmpty == 2     \* most tableau slots, other than the two of a move, left empty

FullCards == {Card(FACES[f], v) : f \in 1..FOUNDATION_SLOTS, v \in 1..FullRanks}

\* a field whose foundation piles have the heights h, the other cards dealt to the tableau
PileField(h) ==
    LET rest == SelectSeq(full_deck, LAMBDA c : c.value > h[face_index(c)])
    IN  [FreeCellOf(rest, FullReserve, FullTableau) EXCEPT
            !.foundation = [i \in 0..(FOUNDATION_SLOTS - 1) |->
                              SubSeq(full_deck, i * FullRanks + 1, i * FullRanks + h[i])]]

\* a field with a run of len cards from the king down on slot 0, free reserve
\* slots empty and the others holding clubs, slots 2..(1 + idle) empty, slot 1
\* empty or not, and the other cards dealt to the remaining slots
RunField(len, free, idle, dest_empty) ==
    LET run == [j \in 1..len |-> Card(IF j % 2 = 1 THEN "spade" ELSE "heart", FullRanks + 1 - j)]
        res == [i \in 0..(FullReserve - 1) |->
                  IF i < FullReserve - free THEN Card("club", FullRanks - i) ELSE None]
        placed == {run[j] : j \in 1..len} \cup {res[i] : i \in 0..(FullReserve - 1)}
        rest == SelectSeq(full_deck, LAMBDA c : c \notin placed)
        shift == IF dest_empty THEN 0 ELSE 1
        dealt == FreeCellOf(rest, FullReserve, FullTableau - 2 - idle + shift).tableau
    IN  [reserve    |-> res,
         foundation |-> [i \in 0..(FOUNDATION_SLOTS - 1) |-> <<>>],
         tableau    |-> [i \in 0..(FullTableau - 1) |->
                           IF i = 0 THEN run
                           ELSE IF i = 1 THEN (IF dest_empty THEN <<>> ELSE dealt[0])
                           ELSE IF i < 2 + idle THEN <<>>
                           ELSE dealt[i - 2 - idle + shift]]]

QueryFields ==
    {PileField(h) : h \in [0..(FOUNDATION_SLOTS - 1) -> 0..PileMax]}
    \cup {RunField(len, free, idle, d) :
            len \in 1..MaxRun, free \in 0..FullReserve, idle \in 0..MaxEmpty, d \in BOOLEAN}

QueryInit ==
    /\ \E fc \in QueryFields : heap = (0 :> fc)
    /\ freecell = 0
    /\ undo_list = <<>>
    /\ undo_index = NoIndex
    /\ action_input = <<>>
    /\ try_sweep = FALSE
    /\ stopped = FALSE
    /\ message = ""
    /\ pc = "call"
    /\ hand = None
    /\ raised = 0
    /\ last = Call("new", 0, 0, 0, "", FALSE)

\* a query and what it returned or raised; the field stays as it is
Queried(c) ==
    /\ pc = "call"
    /\ pc' = "returned"
    /\ last' = c
    /\ UNCHANGED <<heap, hand, raised, hostVars>>

\* should_move_to_foundation(c): a and b of the call are the card's face index and value
ShouldMoveToFoundation(c) ==
    Queried(Call("should_move_to_foundation", face_index(c), c.value, 0, "",
                 should_move_to_foundation(Live, c)))

\* move_capacity(a, b): n of the call is the value returned
MoveCapacity(a, b) ==
    IF empty(Live.tableau[a])
    THEN Queried(Call("move_capacity", a, b, 0, "MoveFromEmpty", FALSE))
    ELSE Queried(Call("move_capacity", a, b, move_capacity(Live, a, b), "", FALSE))

QueryNext ==
    \/ \E c \in FullCards : ShouldMoveToFoundation(c)
    \/ \E a, b \in 0..(FullTableau - 1) : MoveCapacity(a, b)
    \/ EngineResume

SpecQuery == QueryInit /\ [][QueryNext]_vars

\* the value on top of the pile of a face, 0 for an empty pile
TopRank(fc, face) ==
    LET pile == fc.foundation[get_index(face)]
    IN  IF pile = <<>> THEN 0 ELSE pile[Len(pile)].value

Least(x, y) == IF x < y THEN x ELSE y

\* the threshold of the claim for card c
Threshold(fc, c) ==
    LET minBlack == Least(TopRank(fc, "spade"), TopRank(fc, "club"))
        minRed == Least(TopRank(fc, "heart"), TopRank(fc, "diamond"))
    IN  IF c.face \in {"spade", "club"} THEN Least(minBlack + 3, minRed + 2)
        ELSE Least(minBlack + 2, minRed + 3)

\* C18: should_move_to_foundation(c) returns true exactly when c can move to the
\* foundation and c.value is at most the threshold: min(minBlack + 3, minRed + 2)
\* for a black card, min(minBlack + 2, minRed + 3) for a red one, minBlack and
\* minRed being the lower top value of the two black and of the two red piles.
C18_ShouldMoveIffWithinThreshold ==
    (pc = "returned" /\ last.op = "should_move_to_foundation") =>
        LET c == Card(FACES[last.a + 1], last.b)
        IN  last.ret = (can_move_to_foundation(Live, c) /\ c.value <= Threshold(Live, c))

\* a card that can move to the foundation has been found above the threshold
C18_HeldBackByThreshold ==
    /\ pc = "returned"
    /\ last.op = "should_move_to_foundation"
    /\ ~last.ret
    /\ can_move_to_foundation(Live, Card(FACES[last.a + 1], last.b))
    /\ last.b > Threshold(Live, Card(FACES[last.a + 1], last.b))

\* the n cards on top of stack t are a run: each can top the one below it
IsRun(t, n) == \A k \in (Len(t) - n + 2)..Len(t) : can_top(t[k], t[k - 1])

\* the size of the longest run on top of a non-empty stack
MaximalRun(t) ==
    CHOOSE n \in 1..Len(t) : IsRun(t, n) /\ (n = Len(t) \/ ~IsRun(t, n + 1))

\* C19: for a non-empty slot a, move_capacity(a, b) returns the lesser of the
\* size of the run on top of a and (1 + empty reserve slots) * 2^(empty tableau
\* slots - (1 if b is empty else 0)); with 2 empty reserve slots, b not empty, 1
\* empty tableau slot and a run of at least 6 it returns 6.
C19_CapacityFormula ==
    (pc = "returned" /\ last.op = "move_capacity" /\ last.exc = "") =>
        LET run == MaximalRun(Live.tableau[last.a])
            free == Cardinality({i \in DOMAIN Live.reserve : Live.reserve[i] = None})
            empties == Cardinality({i \in DOMAIN Live.tableau : Live.tableau[i] = <<>>})
            to_empty == IF Live.tableau[last.b] = <<>> THEN 1 ELSE 0
            room == (1 + free) * 2^(empties - to_empty)
        IN  /\ last.n = Least(run, room)
            /\ (free = 2 /\ to_empty = 0 /\ empties = 1 /\ run >= 6) => last.n = 6

\* move_capacity has returned 6 for a run of at least 6 with 2 empty reserve
\* slots, one empty tableau slot and a destination holding cards
C19_CapacitySix ==
    /\ pc = "returned"
    /\ last.op = "move_capacity"
    /\ last.exc = ""
    /\ last.n = 6
    /\ MaximalRun(Live.tableau[last.a]) >= 6
    /\ Cardinality({i \in DOMAIN Live.reserve : Live.reserve[i] = None}) = 2
    /\ Cardinality({i \in DOMAIN Live.tableau : Live.tableau[i] = <<>>}) = 1
    /\ Live.tableau[last.b] # <<>>

(* ---- what the interpreter of the keys is claimed to do ---- *)
ClearStep == pc = "input" /\ pc' = "tick" /\ last'.op = "clear_action"

\* C21: space or escape, whatever action_input holds (nothing, a source, 'r'
\* and a reserve slot), leaves action_input empty and changes neither the field
\* in play nor any stored field, undo_list or undo_index.
C21_CancelDiscardsBuffer ==
    [][ClearStep => /\ action_input' = <<>>
                    /\ UNCHANGED <<heap, freecell, undo_list, undo_index>>]_vars

\* the input has been cleared while it held 'r' and the number of a filled reserve slot
C21_CancelledReserveSlot ==
    /\ pc = "tick"
    /\ last.op = "clear_action"
    /\ Len(last.input) = 2
    /\ last.input[1] = RESERVE
    /\ Live.reserve[last.input[2].n] # None
    /\ action_input = <<>>

(* ---- the interpreter on fields of the size of the source ---- *)
FullTokens == {RESERVE, FOUNDATION} \cup {Slot(n) : n \in 0..(FullTableau - 1)}

\* field fc with card c taken from its tableau slot and put on top of slot i
WithTop(fc, i, c) ==
    [fc EXCEPT !.tableau = [j \in DOMAIN fc.tableau |->
        LET t == SelectSeq(fc.tableau[j], LAMBDA x : x # c)
        IN  IF j = i THEN Append(t, c) ELSE t]]

\* games in progress: a run of six on slot 0; slot 1 topped by the queen that the
\* jack of the run can top, with no room to move and with room for four cards,
\* or slot 1 empty, with room for one card and for six
PlayFields ==
    {WithTop(RunField(6, free, free, FALSE), 1, Card("diamond", 12)) : free \in 0..1}
    \cup {RunField(6, 0, 0, TRUE), RunField(6, 2, 1, TRUE)}

\* a game in progress, its history not yet begun, about to read a key
PlayInit ==
    /\ \E fc \in PlayFields : heap = (0 :> fc)
    /\ freecell = 0
    /\ undo_list = <<>>
    /\ undo_index = NoIndex
    /\ action_input = <<>>
    /\ try_sweep = TRUE
    /\ stopped = FALSE
    /\ message = ""
    /\ pc = "input"
    /\ hand = None
    /\ raised = 0
    /\ last = Event("start_game", FALSE, FALSE, NoIndex, 0, 0, <<>>)

PlayNext ==
    \/ Tick
    \/ NoInput
    \/ \E a \in FullTokens : Action(a)
    \/ ClearAction

SpecPlay == PlayInit /\ [][PlayNext]_vars

(* ---- what the interpreter is claimed to do with a complete input ---- *)
ActionStep == pc = "input" /\ pc' \in {"tick", "raised"} /\ last'.op = "action"

\* card c is the next card its foundation pile takes
NextOnPile(fc, c) == c.value = TopRank(fc, c.face) + 1

\* the cards that may move together from slot a to slot b: the formula of move_capacity
LegalGroup(fc, a, b) ==
    LET free == Cardinality({i \in DOMAIN fc.reserve : fc.reserve[i] = None})
        empties == Cardinality({i \in DOMAIN fc.tableau : fc.tableau[i] = <<>>})
        to_empty == IF fc.tableau[b] = <<>> THEN 1 ELSE 0
    IN  Least(MaximalRun(fc.tableau[a]), (1 + free) * 2^(empties - to_empty))

\* the sizes n, within the run on top of slot a, whose n-th card from the top
\* can top the top card of the non-empty slot b
Fits(fc, a, b) ==
    LET t == fc.tableau[a]
        onto == fc.tableau[b][Len(fc.tableau[b])]
    IN  {n \in 1..MaximalRun(t) : can_top(t[Len(t) - n + 1], onto)}

SmallestFit(fc, a, b) == CHOOSE n \in Fits(fc, a, b) : \A m \in Fits(fc, a, b) : n <= m

NoFreeReserve(fc) == \A i \in DOMAIN fc.reserve : fc.reserve[i] # None

\* the inputs the claim lists as invalid, on field fc
InvalidInput(fc, act) ==
    \/ act[1] = FOUNDATION                                       \* a pile as source
    \/ /\ act[1].kind = "slot"                                   \* an empty source slot
       /\ fc.tableau[act[1].n] = <<>>
    \/ /\ Len(act) >= 2 /\ act[1] = RESERVE /\ act[2].kind = "slot"
       /\ \/ act[2].n \notin DOMAIN fc.reserve                    \* no such reserve slot
          \/ fc.reserve[act[2].n] = None                         \* an empty reserve slot
          \/ /\ Len(act) = 3 /\ act[3] = FOUNDATION              \* the pile does not take it
             /\ ~NextOnPile(fc, fc.reserve[act[2].n])
          \/ /\ Len(act) = 3 /\ act[3].kind = "slot"             \* the slot does not take it
             /\ fc.tableau[act[3].n] # <<>>
             /\ ~can_top(fc.reserve[act[2].n], top(fc.tableau[act[3].n]))
    \/ /\ Len(act) = 2 /\ act[1].kind = "slot" /\ fc.tableau[act[1].n] # <<>>
       /\ \/ act[2] = FOUNDATION /\ ~NextOnPile(fc, top(fc.tableau[act[1].n]))
          \/ (act[2] = RESERVE \/ act[2] = act[1]) /\ NoFreeReserve(fc)
          \/ /\ act[2].kind = "slot" /\ act[2] # act[1] /\ fc.tableau[act[2].n] # <<>>
             /\ \/ Fits(fc, act[1].n, act[2].n) = {}              \* no card of the run fits
                \/ SmallestFit(fc, act[1].n, act[2].n)           \* more cards than may move
                       > LegalGroup(fc, act[1].n, act[2].n)

\* what a rejection leaves behind
Rejection ==
    /\ message' # ""
    /\ pc' = "tick"
    /\ action_input' = <<>>
    /\ UNCHANGED <<heap, freecell, undo_list, undo_index>>

\* C22: an input that is invalid (empty source slot or reserve slot, no such
\* reserve slot, a pile as source, a destination that does not take the card, no
\* free reserve slot, more cards than may move) is handled without acting: a
\* message is set, action_input is left empty and the field in play, the stored
\* fields, undo_list and undo_index stay as they were; and so it is for every
\* input that handle_action handles without acting.
C22_InvalidInputRejected ==
    [][ActionStep => /\ InvalidInput(Live, last'.input) => (last'.handled /\ ~last'.acted)
                     /\ (last'.handled /\ ~last'.acted) => Rejection]_vars

\* a group that fits but is larger than may move has been rejected
C22_RejectedOverCapacity ==
    /\ pc = "tick"
    /\ last.op = "action"
    /\ last.handled /\ ~last.acted
    /\ Len(last.input) = 2
    /\ last.input[1].kind = "slot" /\ last.input[2].kind = "slot"
    /\ InvalidInput(Live, last.input)
    /\ Fits(Live, last.input[1].n, last.input[2].n) # {}
    /\ message = "Not enough reserve slots to move"

\* the input is two different slots, the first of them holding cards
SlotToSlot(fc, act) ==
    /\ Len(act) = 2
    /\ act[1].kind = "slot" /\ act[2].kind = "slot"
    /\ act[1] # act[2]
    /\ fc.tableau[act[1].n] # <<>>

\* field after is field before with the n top cards of slot a on top of slot b, in their order
Relocated(before, after, a, b, n) ==
    LET t == before.tableau[a]
    IN  /\ after.tableau[a] = SubSeq(t, 1, Len(t) - n)
        /\ after.tableau[b] = before.tableau[b] \o SubSeq(t, Len(t) - n + 1, Len(t))
        /\ \A i \in DOMAIN before.tableau \ {a, b} : after.tableau[i] = before.tableau[i]
        /\ after.reserve = before.reserve
        /\ after.foundation = before.foundation

\* the field in play before the move that has just been made: the copy it pushed
Prior == heap[undo_list[Len(undo_list)]]

\* C23: when the input is (slot src, slot dest), src # dest, and dest is empty,
\* the move is made, never rejected and never raising: the n = move_capacity(src,
\* dest) top cards of src, the largest group that may move, are on dest in their
\* order and nothing else has changed.
C23_MoveToEmptySlot ==
    [][(ActionStep /\ SlotToSlot(Live, last'.input)
          /\ Live.tableau[last'.input[2].n] = <<>>) =>
        /\ last'.acted
        /\ pc' = "tick"
        /\ Relocated(Live, heap'[freecell'], last'.input[1].n, last'.input[2].n,
                     LegalGroup(Live, last'.input[1].n, last'.input[2].n))]_vars

\* a group of at least four cards has been moved to a slot that was empty
C23_GroupMovedToEmptySlot ==
    /\ pc = "tick"
    /\ last.op = "action"
    /\ last.acted
    /\ SlotToSlot(Prior, last.input)
    /\ Prior.tableau[last.input[2].n] = <<>>
    /\ Len(Live.tableau[last.input[2].n]) >= 4

\* C24: when the input is (slot src, slot dest), src # dest, and dest holds
\* cards, n is the smallest size in 1..count_group(src) whose n-th card from the
\* top of src can top dest's top card. With no such n the input is rejected with
\* 'Cannot move cards'; with n above move_capacity(src, dest) it is rejected with
\* 'Not enough reserve slots to move'; either way no field changes. Otherwise
\* exactly the n top cards of src are moved onto dest in their order.
C24_MoveOntoCards ==
    [][(ActionStep /\ SlotToSlot(Live, last'.input)
          /\ Live.tableau[last'.input[2].n] # <<>>) =>
        LET a == last'.input[1].n
            b == last'.input[2].n
        IN  IF Fits(Live, a, b) = {}
            THEN ~last'.acted /\ message' = "Cannot move cards" /\ heap' = heap
            ELSE IF SmallestFit(Live, a, b) > LegalGroup(Live, a, b)
            THEN /\ ~last'.acted
                 /\ message' = "Not enough reserve slots to move"
                 /\ heap' = heap
            ELSE /\ last'.acted
                 /\ pc' = "tick"
                 /\ Relocated(Live, heap'[freecell'], a, b, SmallestFit(Live, a, b))]_vars

\* a group of at least two cards has been moved onto the cards of another slot
C24_GroupMovedOntoCards ==
    /\ pc = "tick"
    /\ last.op = "action"
    /\ last.acted
    /\ SlotToSlot(Prior, last.input)
    /\ Prior.tableau[last.input[2].n] # <<>>
    /\ Fits(Prior, last.input[1].n, last.input[2].n) # {}
    /\ SmallestFit(Prior, last.input[1].n, last.input[2].n) >= 2
    /\ Len(Live.tableau[last.input[2].n]) >= Len(Prior.tableau[last.input[2].n]) + 2

\* the input is the same slot twice, the slot holding cards
SameSlotTwice(fc, act) ==
    /\ Len(act) = 2
    /\ act[1].kind = "slot"
    /\ act[2] = act[1]
    /\ fc.tableau[act[1].n] # <<>>

\* field after is field before with the top card of slot a in reserve slot i
TopCardToReserve(before, after, a, i) ==
    LET t == before.tableau[a]
    IN  /\ after.tableau = [before.tableau EXCEPT ![a] = SubSeq(t, 1, Len(t) - 1)]
        /\ after.reserve = [before.reserve EXCEPT ![i] = t[Len(t)]]
        /\ after.foundation = before.foundation

\* C25: when the input is the same non-empty slot twice, the slot's top card,
\* and no other, goes to the first empty reserve slot if there is one; if there
\* is none the input is rejected and no field changes.
C25_SameSlotToReserve ==
    [][(ActionStep /\ SameSlotTwice(Live, last'.input)) =>
        LET a == last'.input[1].n
            free == {i \in DOMAIN Live.reserve : Live.reserve[i] = None}
        IN  IF free = {}
            THEN ~last'.acted /\ message' = "No free reserve slots" /\ heap' = heap
            ELSE /\ last'.acted
                 /\ pc' = "tick"
                 /\ \E i \in free :
                       /\ \A j \in free : i <= j
                       /\ TopCardToReserve(Live, heap'[freecell'], a, i)]_vars

\* the top card of a slot named twice has gone to the first of two empty reserve slots
C25_TopCardInFirstFreeSlot ==
    /\ pc = "tick"
    /\ last.op = "action"
    /\ last.acted
    /\ SameSlotTwice(Prior, last.input)
    /\ \E i, j \in DOMAIN Prior.reserve :
          /\ i < j
          /\ Prior.reserve[i] = None /\ Prior.reserve[j] = None
          /\ Live.reserve[i] = top(Prior.tableau[last.input[1].n])
          /\ Live.reserve[j] = None

\* every foundation pile of field after begins with the pile of field before
PilesKept(before, after) ==
    \A i \in DOMAIN before.foundation :
        /\ Len(after.foundation[i]) >= Len(before.foundation[i])
        /\ SubSeq(after.foundation[i], 1, Len(before.foundation[i])) = before.foundation[i]

\* C26 as stated: 't' as the first key of an input is rejected at once, and no
\* step of the game other than undo() takes a card off a foundation pile of the
\* field in play.
C26_PilesShrinkOnlyByUndo ==
    [][/\ (ActionStep /\ last'.input = <<FOUNDATION>>) =>
             (last'.handled /\ ~last'.acted /\ Rejection)
       /\ ~UndoStep => PilesKept(Live, heap'[freecell'])]_vars

\* C26: 't' as the first key of an input is rejected at once, action_input left
\* empty and no field changed; and no step of the game other than undo() and
\* redo() (a key of the interpreter, a tick with its sweep, an engine call) takes
\* a card off a foundation pile of the field in play.
C26_PilesNeverGiveCards ==
    [][/\ (ActionStep /\ last'.input = <<FOUNDATION>>) =>
             (last'.handled /\ ~last'.acted /\ Rejection)
       /\ ~(UndoStep \/ RedoStep) => PilesKept(Live, heap'[freecell'])]_vars

\* 't' has been rejected as a first key while a pile held cards
C26_PileRefusedAsSource ==
    /\ pc = "tick"
    /\ last.op = "action"
    /\ last.input = <<FOUNDATION>>
    /\ message = "Cannot move cards from foundation"
    /\ \E i \in DOMAIN Live.foundation : Live.foundation[i] # <<>>

(* ---- can_top, asked of every pair of cards ---- *)
\* can_top(a, b) for the i-th and j-th card of a deck; a and b of the call are i and j
CanTop(i, j) ==
    /\ pc = "call"
    /\ pc' = "returned"
    /\ last' = Call("can_top", i, j, 0, "", can_top(full_deck[i], full_deck[j]))
    /\ UNCHANGED <<heap, hand, raised, hostVars>>

CardsNext ==
    \/ \E i, j \in 1..Len(full_deck) : CanTop(i, j)
    \/ EngineResume

SpecCards == SweepInit /\ [][CardsNext]_vars

Red(c) == c.face \in {"heart", "diamond"}

\* C27: can_top(a, b) returns true exactly when a and b differ in colour and
\* a.value = b.value - 1, for every two cards: true for the 5 of hearts on the 6 of
\* spades, false for the 5 of hearts on the 6 of hearts; the call changes nothing.
C27_CanTopByColourAndValue ==
    [][(pc = "call" /\ pc' = "returned" /\ last'.op = "can_top") =>
        LET a == full_deck[last'.a]
            b == full_deck[last'.b]
        IN  /\ last'.ret = (Red(a) # Red(b) /\ a.value + 1 = b.value)
            /\ (a = Card("heart", 5) /\ b = Card("spade", 6)) => last'.ret
            /\ (a = Card("heart", 5) /\ b = Card("heart", 6)) => ~last'.ret
            /\ UNCHANGED <<heap, hand, hostVars>>]_vars

\* can_top has returned true for the 5 of hearts on the 6 of spades, asked of
\* the field dealt from the unshuffled deck
C27_FiveOfHeartsOnSixOfSpades ==
    /\ pc = "returned"
    /\ Live = FreeCellOf(full_deck, FullReserve, FullTableau)
    /\ last.op = "can_top"
    /\ full_deck[last.a] = Card("heart", 5)
    /\ full_deck[last.b] = Card("spade", 6)
    /\ last.ret

\* C28: should_move_to_foundation returns true for the ace of a face whose pile
\* is empty, whatever the other piles hold, and so for all four aces when all
\* piles are empty.
C28_AceOfEmptyPileShouldMove ==
    (/\ pc = "returned"
     /\ last.op = "should_move_to_foundation"
     /\ last.b = 1
     /\ Live.foundation[last.a] = <<>>) => last.ret

\* asked about an ace while its pile was empty and every other pile held PileMax cards
C28_AceAskedBesideHighPiles ==
    /\ pc = "returned"
    /\ last.op = "should_move_to_foundation"
    /\ last.b = 1
    /\ last.ret
    /\ Live.foundation[last.a] = <<>>
    /\ \A i \in DOMAIN Live.foundation \ {last.a} : Len(Live.foundation[i]) = PileMax

(* ---- sweep, one turn of its loop at a time ---- *)
\* sweep() is entered: the while loop begins its first scan. a of the call is
\* the slot the scan has come to (the reserve slots first, then the tableau
\* slots), ret is the flag moved
SweepEnter ==
    /\ pc = "call"
    /\ hand = None
    /\ pc' = "sweeping"
    /\ last' = Call("sweep", 0, 0, 0, "", FALSE)
    /\ UNCHANGED <<heap, hand, raised, hostVars>>

\* one turn of a for loop of sweep(): the card of one slot is moved if it should
\* be; after the last slot the while loop is left when no card was moved and
\* scans again when one was
SweepSlot ==
    /\ pc = "sweeping"
    /\ LET k == last.a
           nres == slots(Live.reserve)
           c == IF k < nres THEN Live.reserve[k]
                ELSE IF empty(Live.tableau[k - nres]) THEN None
                ELSE top(Live.tableau[k - nres])
           take == c # None /\ should_move_to_foundation(Live, c)
           taken == IF k < nres THEN move_from_reserve(Live, k).fc
                    ELSE [Live EXCEPT !.tableau[k - nres] = pop(@)]
           moved == last.ret \/ take
       IN  /\ SetLive(IF take THEN move_to_foundation(taken, c).fc ELSE Live)
           /\ IF k + 1 < nres + slots(Live.tableau)
              THEN pc' = "sweeping" /\ last' = [last EXCEPT !.a = k + 1, !.ret = moved]
              ELSE IF moved
              THEN pc' = "sweeping" /\ last' = [last EXCEPT !.a = 0, !.ret = FALSE]
              ELSE pc' = "returned" /\ last' = Call("sweep", 0, 0, 0, "", FALSE)
    /\ UNCHANGED <<hand, raised, hostVars>>

LoopNext ==
    \/ \E i \in 0..(FullTableau - 1) : TableauPop(i)
    \/ MoveToReserve
    \/ SweepEnter
    \/ SweepSlot
    \/ EngineResume

MaxHeld == 3      \* reserve slots filled before the first call

\* field fc after the top cards of the first k tableau slots went to the reserve
RECURSIVE Held(_, _)
Held(fc, k) ==
    IF k = 0 THEN fc
    ELSE LET g == Held(fc, k - 1)
         IN  move_to_reserve([g EXCEPT !.tableau[k - 1] = pop(@)], top(g.tableau[k - 1])).fc

LoopInit ==
    /\ \E deck \in SweepDecks, k \in (MaxHeld - 2)..MaxHeld :
          heap = (0 :> Held(FreeCellOf(deck, FullReserve, FullTableau), k))
    /\ freecell = 0
    /\ undo_list = <<>>
    /\ undo_index = NoIndex
    /\ action_input = <<>>
    /\ try_sweep = FALSE
    /\ stopped = FALSE
    /\ message = ""
    /\ pc = "call"
    /\ hand = None
    /\ raised = 0
    /\ last = Call("new", 0, 0, 0, "", FALSE)

\* a loop that has been entered goes on running
SpecLoop == LoopInit /\ [][LoopNext]_vars /\ WF_vars(SweepSlot)

\* card c is one that a sweep moves: the next of its pile and within the threshold
Sweepable(fc, c) == NextOnPile(fc, c) /\ c.value <= Threshold(fc, c)

\* no card in a reserve slot and no top card of a tableau slot is one a sweep moves
Settled(fc) ==
    /\ \A i \in DOMAIN fc.reserve : fc.reserve[i] # None => ~Sweepable(fc, fc.reserve[i])
    /\ \A i \in DOMAIN fc.tableau :
          fc.tableau[i] # <<>> => ~Sweepable(fc, fc.tableau[i][Len(fc.tableau[i])])

\* C29: sweep() returns from every field it is called on, and when it has
\* returned no card in a reserve slot and no top card of a tableau slot
\* satisfies should_move_to_foundation.
C29_SweepReturnsSettled ==
    /\ [](pc = "sweeping" => <>(pc = "returned"))
    /\ []((pc = "returned" /\ last.op = "sweep") => Settled(Live))

\* sweep has returned, cards on the piles, cards left in the reserve and the tableau
C29_SweptAndReturned ==
    /\ pc = "returned"
    /\ last.op = "sweep"
    /\ \E i \in DOMAIN Live.foundation : Len(Live.foundation[i]) >= 2
    /\ \E i \in DOMAIN Live.tableau : Live.tableau[i] # <<>>
    /\ \E i \in DOMAIN Live.reserve : Live.reserve[i] # None

\* card c lies on its foundation pile
OnPile(fc, c) ==
    \E k \in 1..Len(fc.foundation[get_index(c.face)]) : fc.foundation[get_index(c.face)][k] = c

\* the cards a step of sweep() or a call of sweep_step() has put on the piles
SweptCards ==
    IF pc = "sweeping" \/ (pc = "call" /\ pc' = "returned" /\ last'.op = "sweep_step")
    THEN {c \in FullCards : OnPile(heap'[freecell'], c) /\ ~OnPile(Live, c)}
    ELSE {}

\* C30: when sweep() or sweep_step() moves a card of value r to its pile, both
\* piles of the other colour already have a top value of at least r - 2, so that
\* every card that can top it on the tableau (other colour, value r - 1) is on its
\* pile or is the next card its pile takes.
C30_SweptCardIsNotNeeded ==
    [][\A c \in SweptCards :
          Cardinality(SweptCards) = 1 =>
            /\ \A face \in {FACES[i] : i \in 1..FOUNDATION_SLOTS} :
                  Red(Card(face, 1)) # Red(c) => TopRank(Live, face) >= c.value - 2
            /\ \A d \in FullCards :
                  can_top(d, c) => (OnPile(Live, d) \/ NextOnPile(Live, d))]_vars

\* a card of value 4 or more has been swept while a card that can top it was not yet on its pile
C30_SweptBeforeItsTopper ==
    /\ pc = "sweeping"
    /\ last.ret
    /\ \E c, d \in FullCards :
          /\ c.value >= 4
          /\ OnPile(Live, c)
          /\ Len(Live.foundation[get_index(c.face)]) = c.value
          /\ can_top(d, c)
          /\ ~OnPile(Live, d)

(* ---- what holds of the host as a whole ---- *)
\* C31: in every state the host reaches (deal, action keys, cancel, ticks, undo
\* and redo) the field in play holds every card exactly once over its reserve,
\* foundation and tableau, and so does every field stored in undo_list.
C31_EveryFieldHoldsFullDeck ==
    /\ FullDeck(Live)
    /\ \A k \in 1..Len(undo_list) : FullDeck(heap[undo_list[k]])

\* the cursor is set in a history of three fields made by moves and an undo(),
\* with a card in the reserve of a stored field and cards swept onto the piles
C31_HistoryOfMovedAndSweptFields ==
    /\ undo_index # NoIndex
    /\ Len(undo_list) >= 3
    /\ \E k \in 1..Len(undo_list) :
          \E i \in DOMAIN heap[undo_list[k]].reserve : heap[undo_list[k]].reserve[i] # None
    /\ \E i \in DOMAIN Live.foundation : ~empty(Live.foundation[i])

\* C32: whatever tokens the action keys append and whatever the ticks between
\* them sweep, no engine call made by handle_action or tableau_move raises
\* InvalidMove or MoveFromEmpty or fails the is_free assertion: action() returns
\* and the loop goes on to its next tick.
C32_NoEngineCallEscapes ==
    [][ActionStep => (pc' = "tick" /\ handle_action(Live, last'.input).exc = "")]_vars

\* a card has been taken from a reserve slot and placed on a tableau slot:
\* move_from_reserve and move_to_tableau were both called and returned
C32_ReserveCardPlacedOnSlot ==
    /\ pc = "tick"
    /\ last.op = "action"
    /\ last.acted
    /\ Len(last.input) = 3
    /\ last.input[1] = RESERVE
    /\ is_int(last.input[3])
    /\ ~empty(Live.tableau[last.input[3].n])

\* a shuffle that leaves three cards of one tableau slot to be swept one tick
\* after the other, so that keys arrive while the sweep is under way
HistoryDeck ==
    <<Card("club", 2), Card("spade", 1), Card("heart", 1), Card("club", 1),
      Card("heart", 2), Card("spade", 2), Card("diamond", 1), Card("diamond", 2)>>

HistoryInit ==
    /\ heap = (0 :> FreeCellInit(HistoryDeck))
    /\ freecell = 0
    /\ undo_list = <<>>
    /\ undo_index = NoIndex
    /\ action_input = <<>>
    /\ try_sweep = TRUE
    /\ stopped = FALSE
    /\ message = ""
    /\ pc = "tick"
    /\ hand = None
    /\ raised = 0
    /\ last = Event("start_game", FALSE, FALSE, NoIndex, 0, 0, <<>>)

SpecHistory == HistoryInit /\ [][Next]_vars

\* the loop does not stop of itself: every turn does its tick and takes a key or none
SpecHistoryFair == SpecHistory /\ WF_vars(Next)

\* the game as a step leaves it
GameAfter == Game(heap', freecell', undo_list', undo_index', try_sweep')

\* two fields next to each other in the history of g both hold what fc holds
AdjacentDuplicate(g, fc) ==
    \E k \in 1..(Len(g.undo_list) - 1) :
        /\ g.heap[g.undo_list[k]] = fc
        /\ g.heap[g.undo_list[k + 1]] = fc

\* undo() called right after the step, before the next tick, puts back in play
\* what was in play before the step
UndoRestoresPrior == live(undo(GameAfter)) = Live

\* C33: after a completed move, made with the cursor absent or set, one undo()
\* before any tick makes the field in play equal to the field in play just before
\* the move, and no two adjacent fields of the history then both equal that field.
C33_UndoAfterMoveRestoresPrior ==
    [][MoveStep => (UndoRestoresPrior /\ ~AdjacentDuplicate(undo(GameAfter), Live))]_vars

\* the restoring alone, whatever the history then holds
MoveThenUndoRestoresField == [][MoveStep => UndoRestoresPrior]_vars

\* what the history looks like with the cursor set and with the cursor absent
HistoryShape ==
    IF undo_index # NoIndex
    THEN /\ 0 <= undo_index
         /\ undo_index <= Len(undo_list) - 1
         /\ Len(undo_list) >= 2
         /\ freecell = undo_list[undo_index + 1]
         /\ Live = heap[undo_list[undo_index + 1]]
    ELSE \A k \in 1..Len(undo_list) : undo_list[k] # freecell

\* the fields of the history that moves pushed: all but the capture undo() appended
PreMoveSnapshots(idx, ul) == IF idx = NoIndex THEN Len(ul) ELSE Len(ul) - 1

\* how a step changes the history: only the first undo() appends the capture, which
\* stays last while the cursor is set; a move keeps the snapshots before the cursor
\* and adds one; undo() and redo() keep the snapshots moves pushed
HistoryStep ==
    /\ (UndoStep /\ undo_index = NoIndex /\ undo_list # <<>>) =>
            /\ undo_list' = Append(undo_list, freecell)
            /\ heap'[freecell] = Live
    /\ (undo_index # NoIndex /\ undo_index' # NoIndex) => undo_list' = undo_list
    /\ MoveStep =>
            /\ undo_index' = NoIndex
            /\ PreMoveSnapshots(undo_index', undo_list') =
                   (IF undo_index = NoIndex THEN Len(undo_list) ELSE undo_index) + 1
    /\ ~MoveStep =>
            PreMoveSnapshots(undo_index', undo_list') = PreMoveSnapshots(undo_index, undo_list)

\* C34: with the cursor set, 0 <= undo_index <= len(undo_list) - 1, undo_list
\* holds at least two fields, its last one is the field that was live at the
\* first undo() and the field in play is undo_list[undo_index]; with the cursor
\* absent undo_list holds one field per move that can still be undone, none of
\* them the field in play.
C34_HistoryShape == [][HistoryStep]_vars /\ []HistoryShape

\* redo() has stepped the cursor onto the capture, the last of three fields,
\* which is in play again with the cursor still set
C34_CursorOnCapture ==
    /\ pc = "tick"
    /\ last.op = "redo"
    /\ Len(undo_list) = 3
    /\ undo_index = 2
    /\ freecell = undo_list[3]

\* action_input between two keys: nothing, a tableau slot, 'reserve', or
\* 'reserve' and the number of a reserve slot
BufferForm ==
    \/ action_input = <<>>
    \/ Len(action_input) = 1 /\ (is_int(action_input[1]) \/ action_input[1] = RESERVE)
    \/ /\ Len(action_input) = 2
       /\ action_input[1] = RESERVE
       /\ is_int(action_input[2])
       /\ action_input[2].n \in 0..(slots(Live.reserve) - 1)

\* action_input as a token leaves it, against the field as the token leaves it
BufferAfterToken ==
    /\ Len(last'.input) <= 3
    /\ \/ action_input' = <<>>
       \/ \E i \in 0..(slots(Live'.tableau) - 1) :
             action_input' = <<Slot(i)>> /\ ~empty(Live'.tableau[i])
       \/ action_input' = <<RESERVE>>
       \/ \E j \in 0..(slots(Live'.reserve) - 1) :
             action_input' = <<RESERVE, Slot(j)>> /\ Live'.reserve[j] # None
    /\ (action_input # <<>> /\ is_int(action_input[1])) => action_input' = <<>>
    /\ Len(action_input) = 2 => action_input' = <<>>

\* C35: action_input never holds more than 3 tokens; after every token it is
\* empty, or a non-empty tableau slot, or 'reserve', or 'reserve' and an occupied
\* reserve slot; input that starts with a tableau slot is cleared by its second
\* token and input that starts with 'reserve' by its third token at the latest.
C35_BufferShapes == [][ActionStep => BufferAfterToken]_vars /\ [](BufferForm /\ Len(action_input) <= 3)

\* 'reserve' and the number of an occupied reserve slot are pending
C35_ReserveSlotPending ==
    /\ pc = "tick"
    /\ last.op = "action"
    /\ ~last.handled
    /\ Len(action_input) = 2
    /\ Live.reserve[action_input[2].n] # None

(* ---- the ticks and try_sweep ---- *)
\* the step is one turn's before_tick
TickStep == pc = "tick" /\ pc' = "input"

\* the step clears try_sweep
FlagCleared == try_sweep /\ ~try_sweep'

\* the cards on the foundation
PileCards(fc) ==
    Len(fc.foundation[0]) + Len(fc.foundation[1]) + Len(fc.foundation[2]) + Len(fc.foundation[3])

\* the step takes at most SWEEP_CARDS cards to the foundation, at most the card
\* of each reserve slot and the top card of each tableau slot
OnePerSlot ==
    /\ PileCards(Live') - PileCards(Live) <= SWEEP_CARDS
    /\ \A j \in DOMAIN Live.reserve : Live'.reserve[j] \in {Live.reserve[j], None}
    /\ \A i \in DOMAIN Live.tableau :
          \/ Live'.tableau[i] = Live.tableau[i]
          \/ Live.tableau[i] # <<>> /\ Live'.tableau[i] = pop(Live.tableau[i])

\* the tick moved no card and no card of the field is one a sweep moves
ClearedOnSettled == TickStep /\ Live' = Live /\ Settled(Live)

\* the tick moved the last card off the tableau and game_won was called
ClearedOnWon == TickStep /\ Live' # Live /\ won(Live') /\ stopped'

CompletingStep == ActionStep /\ action_input # <<>>

\* the tableau slot or the reserve slot that action_input names holds no card
SourceGone ==
    \/ /\ is_int(action_input[1])
       /\ empty(Live.tableau[action_input[1].n])
    \/ /\ Len(action_input) = 2
       /\ Live.reserve[action_input[2].n] = None

\* the input is rejected: a message, action_input cleared, field and history as before
RejectedUnchanged ==
    /\ pc' = "tick"
    /\ last'.handled
    /\ ~last'.acted
    /\ action_input' = <<>>
    /\ message' \in {"Tableau slot is empty", "Reserve slot is empty"}
    /\ HistoryUnchanged

\* the step took cards from the top of tableau slot i as the slot is now and
\* put them on another tableau slot, in a reserve slot or on their pile
MovedFromTop(i) ==
    \E n \in 1..Len(Live.tableau[i]) :
        LET cs == TopCards(Live.tableau[i], n)
        IN  /\ Live'.tableau[i] = SubSeq(Live.tableau[i], 1, Len(Live.tableau[i]) - n)
            /\ \/ \E d \in DOMAIN Live.tableau \ {i} :
                     Live'.tableau[d] = Live.tableau[d] \o cs
               \/ /\ n = 1
                  /\ \E j \in DOMAIN Live.reserve :
                        Live.reserve[j] = None /\ Live'.reserve[j] = cs[1]
               \/ /\ n = 1
                  /\ Live'.foundation[face_index(cs[1])] =
                        push(Live.foundation[face_index(cs[1])], cs[1])

\* C37: a token that completes an input is checked against the field as the
\* ticks since the first token have left it: when the reserve slot or the
\* tableau slot the input names has been emptied the input is rejected and the
\* field and the history stay as they are; when the tableau slot still holds
\* cards, a move takes the cards now on top of it and a rejection changes nothing.
C37_TokenCheckedAgainstCurrentField ==
    [][CompletingStep =>
        /\ SourceGone => RejectedUnchanged
        /\ (is_int(action_input[1]) /\ ~empty(Live.tableau[action_input[1].n])) =>
              IF last'.acted THEN MovedFromTop(action_input[1].n)
              ELSE Live' = Live /\ undo_list' = undo_list /\ undo_index' = undo_index]_vars

\* the second token found the tableau slot named by the first one emptied by
\* the tick between them
C37_SourceSweptWhilePending ==
    /\ pc = "tick"
    /\ last.op = "action"
    /\ Len(last.input) = 2
    /\ is_int(last.input[1])
    /\ last.handled
    /\ ~last.acted
    /\ message = "Tableau slot is empty"
    /\ empty(Live.tableau[last.input[1].n])

====
